---- MODULE Spec2Model ----
(***************************************************************************)
(* A model of the PPTAutomation pipeline: utils.py (cell references,       *)
(* fiscal calendar, sheet resolution), excel_processor.py (preprocessing), *)
(* ppt_updater.py (table loading, template filling) and app.py (the        *)
(* upload handler).                                                        *)
(*                                                                         *)
(* Python strings are modelled as sequences of one-character strings, so   *)
(* that parsing, formatting and regular-expression matching are computed   *)
(* character by character.                                                 *)
(***************************************************************************)
EXTENDS Integers, Sequences, FiniteSets, TLC

VARIABLES
    \* ---- coordinate_to_tuple harness
    cell_ref,        \* the argument string
    coord_result,    \* NotCalled, or what the call produced
    \* ---- get_fiscal_quarter_and_month harness
    date_obj,        \* the argument date [year, month, day]
    fiscal,          \* NotCalled, or the returned tuple
    prev_date,       \* the day before date_obj, once the harness stepped
    prev_fiscal,     \* what the call returned for prev_date
    \* ---- sheet resolution harness (find_dynamic_sheets, sheet ordering)
    sheet_names,     \* the sheet names of the source workbook, in order
    labels,          \* the fiscal labels of the run's date
    sheet_pc,        \* "start", "preprocessed", "identified", "ordered"
    required_sheets, \* preprocess_excel_xml's find_dynamic_sheets result
    identified_sheets, \* upload_file's find_dynamic_sheets result
    ordered_sheets,  \* upload_file's ordered sheet list
    \* ---- the upload pipeline, one run of upload_file per request
    files,           \* the files of TEMP_DIR: file name -> content
    metadata,        \* ppt_updater._percentage_shapes_metadata (module global)
    req,             \* each request's upload and the faults its run meets
    pc,              \* each request's position in upload_file
    run,             \* each request's local variables
    prs,             \* each request's Presentation object
    response,        \* each request's HTTP response
    hist,            \* history: what each run did (read by the claims only)
    \* ---- region extraction harness (load_tables_from_excel, one region)
    src_sheet,       \* the sheet of the source workbook
    table_region,    \* the region (start, end) as cell references
    direct_df,       \* the table loaded from the source workbook itself
    target_sheet,    \* the sheet preprocess_excel_xml writes to the target
    pipeline_df,     \* the table loaded from the preprocessed workbook
    \* ---- prefix map harness (update_ppt_labels, flattening of table_data)
    table_data,      \* the tables of each sheet, in the order of the dict
    prefix_result,   \* NotCalled, or all_tbls_flat and lmap after the loop
    \* ---- numeric tag harness (update_ppt_labels on one run of text)
    tag_flat,        \* all_tbls_flat: the tables, each a grid of cell values
    run_text,        \* run.text before the substitution
    run_kind,        \* "text_box" or "table_cell": where the run is
    tag_result,      \* NotCalled, run.text afterwards, or the error raised
    \* ---- extraction harness (one workbook through both extractors)
    ext_sheets,      \* the sheets asked for, each with what is wrong with it
    ext_pre,         \* NotCalled, or what preprocess_excel_xml did
    ext_load,        \* NotCalled, or what load_tables_from_excel did
    \* ---- cell value harness (_extract_cell_values_from_xml on one sheet)
    xml_cells,       \* the <c> elements of the sheet, in document order
    shared_strings,  \* the shared string table
    cell_values,     \* NotCalled, or the value found for each element
    \* ---- region assignment harness (upload_file lines 107-164, the load
    \* ---- and the flattening of update_ppt_labels)
    asg_names,       \* the sheet names of the preprocessed workbook
    asg_faults,      \* the sheets skipped and the regions whose read fails
    asg_regions,     \* NotCalled, or the ordered sheets and table_regions
    asg_flat         \* NotCalled, or all_tbls_flat after the flattening

coordVars == <<cell_ref, coord_result>>

fiscalVars == <<date_obj, fiscal, prev_date, prev_fiscal>>

sheetVars == <<sheet_names, labels, sheet_pc, required_sheets,
               identified_sheets, ordered_sheets>>

uploadVars == <<files, metadata, req, pc, run, prs, response, hist>>

regionVars == <<src_sheet, table_region, direct_df, target_sheet, pipeline_df>>

prefixVars == <<table_data, prefix_result>>

tagsVars == <<tag_flat, run_text, run_kind, tag_result>>

extractVars == <<ext_sheets, ext_pre, ext_load>>

cellsVars == <<xml_cells, shared_strings, cell_values>>

assignVars == <<asg_names, asg_faults, asg_regions, asg_flat>>

\* the variables of the harnesses of single functions of ppt_updater
unitVars == <<regionVars, prefixVars, tagsVars, extractVars, cellsVars, assignVars>>

\* what the region harness leaves alone among them
nonRegionVars == <<prefixVars, tagsVars, extractVars, cellsVars, assignVars>>

\* what the prefix harness leaves alone among them
nonPrefixVars == <<regionVars, tagsVars, extractVars, cellsVars, assignVars>>

\* what the tags harness leaves alone among them
nonTagsVars == <<regionVars, prefixVars, extractVars, cellsVars, assignVars>>

\* what the extract harness leaves alone among them
nonExtractVars == <<regionVars, prefixVars, tagsVars, cellsVars, assignVars>>

\* what the cells harness leaves alone among them
nonCellsVars == <<regionVars, prefixVars, tagsVars, extractVars, assignVars>>

\* what the assign harness leaves alone among them
nonAssignVars == <<regionVars, prefixVars, tagsVars, extractVars, cellsVars>>

baseVars == <<coordVars, fiscalVars, sheetVars, uploadVars>>

vars == <<baseVars, unitVars>>

NotCalled == [kind |-> "not_called"]

\* Each harness below drives one group of variables; the others rest here.
NoDate == [year |-> 0, month |-> 0, day |-> 0]

IdleFiscal ==
    /\ date_obj = NoDate
    /\ fiscal = NotCalled
    /\ prev_date = NoDate
    /\ prev_fiscal = NotCalled

IdleCoord ==
    /\ cell_ref = <<>>
    /\ coord_result = NotCalled

IdleUpload ==
    /\ files = <<>>
    /\ metadata = <<>>
    /\ req = <<>>
    /\ pc = <<>>
    /\ run = <<>>
    /\ prs = <<>>
    /\ response = <<>>
    /\ hist = <<>>

IdleSheets ==
    /\ sheet_names = <<>>
    /\ labels = NotCalled
    /\ sheet_pc = "idle"
    /\ required_sheets = <<>>
    /\ identified_sheets = <<>>
    /\ ordered_sheets = <<>>

IdleRegion ==
    /\ src_sheet = NotCalled
    /\ table_region = <<>>
    /\ direct_df = NotCalled
    /\ target_sheet = NotCalled
    /\ pipeline_df = NotCalled

IdlePrefix ==
    /\ table_data = <<>>
    /\ prefix_result = NotCalled

IdleTags ==
    /\ tag_flat = <<>>
    /\ run_text = <<>>
    /\ run_kind = "idle"
    /\ tag_result = NotCalled

IdleExtract ==
    /\ ext_sheets = <<>>
    /\ ext_pre = NotCalled
    /\ ext_load = NotCalled

IdleCells ==
    /\ xml_cells = <<>>
    /\ shared_strings = <<>>
    /\ cell_values = NotCalled

IdleAssign ==
    /\ asg_names = <<>>
    /\ asg_faults = [skip |-> {}, fail |-> {}]
    /\ asg_regions = NotCalled
    /\ asg_flat = NotCalled

IdleUnits ==
    /\ IdleRegion
    /\ IdlePrefix
    /\ IdleTags
    /\ IdleExtract
    /\ IdleCells
    /\ IdleAssign

IdleNonRegion ==
    /\ IdlePrefix
    /\ IdleTags
    /\ IdleExtract
    /\ IdleCells
    /\ IdleAssign

IdleNonPrefix ==
    /\ IdleRegion
    /\ IdleTags
    /\ IdleExtract
    /\ IdleCells
    /\ IdleAssign

IdleNonTags ==
    /\ IdleRegion
    /\ IdlePrefix
    /\ IdleExtract
    /\ IdleCells
    /\ IdleAssign

IdleNonExtract ==
    /\ IdleRegion
    /\ IdlePrefix
    /\ IdleTags
    /\ IdleCells
    /\ IdleAssign

IdleNonCells ==
    /\ IdleRegion
    /\ IdlePrefix
    /\ IdleTags
    /\ IdleExtract
    /\ IdleAssign

IdleNonAssign ==
    /\ IdleRegion
    /\ IdlePrefix
    /\ IdleTags
    /\ IdleExtract
    /\ IdleCells

IdleBase ==
    /\ IdleCoord
    /\ IdleFiscal
    /\ IdleSheets
    /\ IdleUpload

-----------------------------------------------------------------------------
(* Characters *)

UpperLetters == <<"A","B","C","D","E","F","G","H","I","J","K","L","M",
                  "N","O","P","Q","R","S","T","U","V","W","X","Y","Z">>

LowerLetters == <<"a","b","c","d","e","f","g","h","i","j","k","l","m",
                  "n","o","p","q","r","s","t","u","v","w","x","y","z">>

DigitChars == <<"0","1","2","3","4","5","6","7","8","9">>

IsUpper(c) == \E i \in 1..26 : UpperLetters[i] = c

IsLower(c) == \E i \in 1..26 : LowerLetters[i] = c

\* the character class [A-Za-z]
IsLetter(c) == IsUpper(c) \/ IsLower(c)

\* the character class \d (ASCII digits; the alphabets below hold no other)
IsDigit(c) == \E i \in 1..10 : DigitChars[i] = c

\* str.upper() on one character
upper(c) ==
    IF IsLower(c) THEN UpperLetters[CHOOSE i \in 1..26 : LowerLetters[i] = c]
    ELSE c

\* str.lower() on one character
lower(c) ==
    IF IsUpper(c) THEN LowerLetters[CHOOSE i \in 1..26 : UpperLetters[i] = c]
    ELSE c

\* ord() of a letter
ord(c) ==
    IF IsUpper(c) THEN 64 + (CHOOSE i \in 1..26 : UpperLetters[i] = c)
    ELSE 96 + (CHOOSE i \in 1..26 : LowerLetters[i] = c)

DigitValue(c) == (CHOOSE i \in 1..10 : DigitChars[i] = c) - 1

\* int() of a string of decimal digits
RECURSIVE int(_)
int(s) ==
    IF s = <<>> THEN 0
    ELSE 10 * int(SubSeq(s, 1, Len(s) - 1)) + DigitValue(s[Len(s)])

\* str() of a natural number
RECURSIVE str(_)
str(n) ==
    IF n < 10 THEN <<DigitChars[n + 1]>>
    ELSE Append(str(n \div 10), DigitChars[(n % 10) + 1])

\* reversed() of a string
RECURSIVE reversed(_)
reversed(s) ==
    IF s = <<>> THEN <<>> ELSE Append(reversed(Tail(s)), Head(s))

\* length of the longest prefix of s from position i on whose characters
\* all satisfy the class (a greedy `+` / `*` over one character class)
RECURSIVE RunLen(_, _, _)
RunLen(s, i, isLetterClass) ==
    IF i > Len(s) THEN 0
    ELSE IF (IF isLetterClass THEN IsLetter(s[i]) ELSE IsDigit(s[i]))
         THEN 1 + RunLen(s, i + 1, isLetterClass)
         ELSE 0

-----------------------------------------------------------------------------
(* utils.coordinate_to_tuple *)

\* re.match(r"([A-Za-z]+)(\d+)", cell_ref): anchored at the start only.  The
\* two classes are disjoint, so the greedy runs are the only way to match.
CellRefMatch(s) ==
    LET nl == RunLen(s, 1, TRUE)
        nd == RunLen(s, nl + 1, FALSE)
    IN  IF nl >= 1 /\ nd >= 1
        THEN [matched |-> TRUE,
              col_str |-> SubSeq(s, 1, nl),
              row_str |-> SubSeq(s, nl + 1, nl + nd)]
        ELSE [matched |-> FALSE, col_str |-> <<>>, row_str |-> <<>>]

\* the loop of lines 14-16: sum of (ord(char.upper()) - 64) * 26 ** i over
\* enumerate(reversed(col_str))
RECURSIVE ColLoop(_, _)
ColLoop(rev, i) ==
    IF i >= Len(rev) THEN 0
    ELSE (ord(upper(rev[i + 1])) - 64) * (26 ^ i) + ColLoop(rev, i + 1)

\* the loop run over col_str itself instead of reversed(col_str)
ColNumNotReversed(col_str) == ColLoop(col_str, 0)

ColNum(col_str) == ColLoop(reversed(col_str), 0)

coordinate_to_tuple(s) ==
    LET m == CellRefMatch(s)
    IN  IF ~m.matched THEN [kind |-> "ValueError"]
        ELSE [kind |-> "tuple", row |-> int(m.row_str), col |-> ColNum(m.col_str)]

-----------------------------------------------------------------------------
(* Harness of coordinate_to_tuple: every string over RefChars up to MaxRefLen *)

MaxRefLen == 4

RefChars == {"A", "B", "Z", "x", "0", "1", ":"}

RefStrings == UNION {[1..n -> RefChars] : n \in 0..MaxRefLen}

InitCoord ==
    /\ cell_ref \in RefStrings
    /\ coord_result = NotCalled
    /\ IdleFiscal
    /\ IdleSheets
    /\ IdleUpload
    /\ IdleUnits

CallCoordinateToTuple ==
    /\ coord_result = NotCalled
    /\ coord_result' = coordinate_to_tuple(cell_ref)
    /\ UNCHANGED <<cell_ref, fiscalVars, sheetVars, uploadVars, unitVars>>

NextCoord == CallCoordinateToTuple

SpecCoord == InitCoord /\ [][NextCoord]_vars

\* one or more letters followed by one or more digits, and nothing else
WellFormedRef(s) ==
    LET nl == RunLen(s, 1, TRUE)
        nd == RunLen(s, nl + 1, FALSE)
    IN  nl >= 1 /\ nd >= 1 /\ nl + nd = Len(s)

LettersOf(s) == SubSeq(s, 1, RunLen(s, 1, TRUE))

DigitsOf(s) == SubSeq(s, RunLen(s, 1, TRUE) + 1, Len(s))

\* position of a letter in the alphabet, whatever its case
LetterIndex(c) ==
    CHOOSE i \in 1..26 : UpperLetters[i] = c \/ LowerLetters[i] = c

\* bijective base-26 value, most significant letter first (Horner)
RECURSIVE Bijective26(_)
Bijective26(letters) ==
    IF letters = <<>> THEN 0
    ELSE 26 * Bijective26(SubSeq(letters, 1, Len(letters) - 1))
         + LetterIndex(letters[Len(letters)])

\* decimal value, most significant digit first
RECURSIVE DecimalValue(_, _)
DecimalValue(digits, acc) ==
    IF digits = <<>> THEN acc
    ELSE DecimalValue(Tail(digits), 10 * acc + DigitValue(Head(digits)))

FoldCase(s) == [i \in 1..Len(s) |-> upper(s[i])]

LetterStrings ==
    UNION {[1..n -> {c \in RefChars : IsLetter(c)}] : n \in 1..MaxRefLen}

\* C9: for a reference made of letters followed by a row number the call
\* returns (row, column) with the column the bijective base-26 value of the
\* letters read case-insensitively ("B10" gives (10, 2), "AA1" gives (1, 27)),
\* and letter strings that differ (other than by case) give other columns.
C9_BijectiveColumn ==
    (coord_result # NotCalled /\ WellFormedRef(cell_ref)) =>
        /\ coord_result = [kind |-> "tuple",
                           row |-> DecimalValue(DigitsOf(cell_ref), 0),
                           col |-> Bijective26(LettersOf(cell_ref))]
        /\ (cell_ref = <<"B", "1", "0">> =>
                coord_result.row = 10 /\ coord_result.col = 2)
        /\ (cell_ref = <<"A", "A", "1">> =>
                coord_result.row = 1 /\ coord_result.col = 27)
        /\ \A other \in LetterStrings :
                FoldCase(other) # FoldCase(LettersOf(cell_ref)) =>
                    coordinate_to_tuple(other \o <<"1">>).col # coord_result.col

C9_Witness ==
    /\ cell_ref = <<"x", "Z", "1", "0">>
    /\ coord_result = [kind |-> "tuple", row |-> 10, col |-> 650]

\* C10: the call fails with ValueError for every string that is not exactly
\* one or more letters followed by one or more digits.
C10_InvalidRefFails ==
    (coord_result # NotCalled /\ ~WellFormedRef(cell_ref)) =>
        coord_result.kind = "ValueError"

-----------------------------------------------------------------------------
(* utils.get_fiscal_quarter_and_month *)

fiscal_start_month == 8

\* f"Q{n}", f"M{n}"
Label(letter, n) == <<letter>> \o str(n)

\* the comparison of line 26 written as a strict one
get_fiscal_quarter_and_month_StrictBoundary(d) ==
    LET fiscal_year == IF d.month > fiscal_start_month THEN d.year + 1 ELSE d.year
        fiscal_month_overall_num == ((d.month - fiscal_start_month) % 12) + 1
        fiscal_quarter_num == ((fiscal_month_overall_num - 1) \div 3) + 1
        fiscal_month_in_quarter_num == ((fiscal_month_overall_num - 1) % 3) + 1
    IN  [kind |-> "tuple",
         year |-> fiscal_year,
         quarter |-> Label("Q", fiscal_quarter_num),
         month_overall |-> Label("M", fiscal_month_overall_num),
         month_in_quarter |-> Label("M", fiscal_month_in_quarter_num)]

\* the quarter of line 32 computed without the "- 1"
get_fiscal_quarter_and_month_QuarterOffByOne(d) ==
    LET fiscal_year == IF d.month >= fiscal_start_month THEN d.year + 1 ELSE d.year
        fiscal_month_overall_num == ((d.month - fiscal_start_month) % 12) + 1
        fiscal_quarter_num == (fiscal_month_overall_num \div 3) + 1
        fiscal_month_in_quarter_num == ((fiscal_month_overall_num - 1) % 3) + 1
    IN  [kind |-> "tuple",
         year |-> fiscal_year,
         quarter |-> Label("Q", fiscal_quarter_num),
         month_overall |-> Label("M", fiscal_month_overall_num),
         month_in_quarter |-> Label("M", fiscal_month_in_quarter_num)]

get_fiscal_quarter_and_month(d) ==
    LET fiscal_year == IF d.month >= fiscal_start_month THEN d.year + 1 ELSE d.year
        fiscal_month_overall_num == ((d.month - fiscal_start_month) % 12) + 1
        fiscal_quarter_num == ((fiscal_month_overall_num - 1) \div 3) + 1
        fiscal_month_in_quarter_num == ((fiscal_month_overall_num - 1) % 3) + 1
    IN  [kind |-> "tuple",
         year |-> fiscal_year,
         quarter |-> Label("Q", fiscal_quarter_num),
         month_overall |-> Label("M", fiscal_month_overall_num),
         month_in_quarter |-> Label("M", fiscal_month_in_quarter_num)]

-----------------------------------------------------------------------------
(* Harness of get_fiscal_quarter_and_month: every date of a span of years, *)
(* and every pair of consecutive days in it                                *)

YearSpan == 2

Years == 2023..(2023 + YearSpan)

IsLeap(y) == (y % 4 = 0 /\ y % 100 # 0) \/ y % 400 = 0

DaysInMonth(y, m) ==
    IF m = 2 THEN (IF IsLeap(y) THEN 29 ELSE 28)
    ELSE IF m \in {4, 6, 9, 11} THEN 30 ELSE 31

Dates ==
    {d \in [year : Years, month : 1..12, day : 1..31] :
        d.day <= DaysInMonth(d.year, d.month)}

\* date + timedelta(days=1)
NextDay(d) ==
    IF d.day < DaysInMonth(d.year, d.month)
    THEN [d EXCEPT !.day = d.day + 1]
    ELSE IF d.month < 12
         THEN [year |-> d.year, month |-> d.month + 1, day |-> 1]
         ELSE [year |-> d.year + 1, month |-> 1, day |-> 1]

InitFiscal ==
    /\ date_obj \in Dates
    /\ fiscal = NotCalled
    /\ prev_date = NoDate
    /\ prev_fiscal = NotCalled
    /\ IdleCoord
    /\ IdleSheets
    /\ IdleUpload
    /\ IdleUnits

CallFiscal ==
    /\ fiscal = NotCalled
    /\ fiscal' = get_fiscal_quarter_and_month(date_obj)
    /\ UNCHANGED <<date_obj, prev_date, prev_fiscal, coordVars, sheetVars, uploadVars, unitVars>>

CallFiscalNextDay ==
    /\ fiscal # NotCalled
    /\ NextDay(date_obj) \in Dates
    /\ prev_date' = date_obj
    /\ prev_fiscal' = fiscal
    /\ date_obj' = NextDay(date_obj)
    /\ fiscal' = get_fiscal_quarter_and_month(date_obj')
    /\ UNCHANGED <<coordVars, sheetVars, uploadVars, unitVars>>

NextFiscal == CallFiscal \/ CallFiscalNextDay

SpecFiscal == InitFiscal /\ [][NextFiscal]_vars

\* the number a label such as "Q3" or "M12" carries
LabelNumber(label) == DecimalValue(Tail(label), 0)

\* C7: for a date with month m and year y the call returns
\* monthOverall = ((m - 8) mod 12) + 1, quarter = ((monthOverall - 1) div 3) + 1,
\* monthInQuarter = ((monthOverall - 1) mod 3) + 1, year = y + 1 if m >= 8 else y.
C7_FiscalFormulas ==
    fiscal # NotCalled =>
        LET m == date_obj.month
            y == date_obj.year
            monthOverall == ((m - 8) % 12) + 1
        IN  /\ Head(fiscal.month_overall) = "M"
            /\ LabelNumber(fiscal.month_overall) = monthOverall
            /\ Head(fiscal.quarter) = "Q"
            /\ LabelNumber(fiscal.quarter) = ((monthOverall - 1) \div 3) + 1
            /\ Head(fiscal.month_in_quarter) = "M"
            /\ LabelNumber(fiscal.month_in_quarter) = ((monthOverall - 1) % 3) + 1
            /\ fiscal.year = (IF m >= 8 THEN y + 1 ELSE y)

C7_Witness ==
    /\ date_obj = [year |-> 2024, month |-> 6, day |-> 15]
    /\ fiscal # NotCalled
    /\ fiscal.month_overall = <<"M", "1", "1">>
    /\ fiscal.quarter = <<"Q", "4">>
    /\ fiscal.month_in_quarter = <<"M", "2">>
    /\ fiscal.year = 2024

\* C8: the quarter is one of Q1..Q4 and the month-in-quarter one of M1..M3;
\* over two consecutive days the fiscal year differs exactly when they are
\* July 31 and August 1, and then by +1; it is the same on December 31 and
\* January 1.
C8_FiscalYearBoundary ==
    /\ fiscal # NotCalled =>
          /\ fiscal.quarter \in {<<"Q", "1">>, <<"Q", "2">>, <<"Q", "3">>, <<"Q", "4">>}
          /\ fiscal.month_in_quarter \in {<<"M", "1">>, <<"M", "2">>, <<"M", "3">>}
    /\ prev_fiscal # NotCalled =>
          /\ (fiscal.year # prev_fiscal.year) <=>
                 (/\ prev_date.month = 7 /\ prev_date.day = 31
                  /\ date_obj.month = 8 /\ date_obj.day = 1)
          /\ fiscal.year \in {prev_fiscal.year, prev_fiscal.year + 1}
          /\ (prev_date.month = 12 /\ prev_date.day = 31) =>
                 fiscal.year = prev_fiscal.year

C8_Witness ==
    /\ prev_fiscal # NotCalled
    /\ prev_date = [year |-> 2024, month |-> 7, day |-> 31]
    /\ date_obj = [year |-> 2024, month |-> 8, day |-> 1]
    /\ prev_fiscal.year = 2024
    /\ fiscal.year = 2025

-----------------------------------------------------------------------------
(* utils.find_dynamic_sheets *)

S_MarginsScenarios == <<"M", "a", "r", "g", "i", "n", "s", " ", "S", "c", "e", "n", "a", "r", "i", "o", "s">>

S_ExecView == <<"E", "x", "e", "c", " ", "V", "i", "e", "w">>

S_Comparisons == <<"C", "o", "m", "p", "a", "r", "i", "s", "o", "n", "s">>

S_Commit == <<"C", "o", "m", "m", "i", "t">>

\* The four patterns of lines 42-47, each ^prefix(.*)suffix$: a literal
\* prefix, an optional ".*", a literal suffix.  The labels interpolated into
\* them hold letters and digits only, so no character of a pattern but ".*"
\* is special.
required_patterns(fiscal_quarter_str, fiscal_month_in_quarter_str) ==
    << [prefix |-> S_MarginsScenarios, any |-> FALSE, suffix |-> <<>>],
       [prefix |-> fiscal_month_in_quarter_str \o <<" ">>,
        any |-> TRUE, suffix |-> S_ExecView],
       [prefix |-> fiscal_quarter_str \o <<" ">>
                   \o fiscal_month_in_quarter_str \o <<" ">>,
        any |-> TRUE, suffix |-> S_Comparisons],
       [prefix |-> fiscal_quarter_str \o <<" ">> \o S_Commit,
        any |-> FALSE, suffix |-> <<>>] >>

\* equality of two strings under re.IGNORECASE
SameIgnoringCase(a, b) ==
    /\ Len(a) = Len(b)
    /\ \A i \in 1..Len(a) : lower(a[i]) = lower(b[i])

\* re.match(pattern, sheet_name, re.IGNORECASE) for a pattern of the shape
\* above (the names of the model hold no line break, which "." would not
\* match and before which "$" would)
re_match(pattern, sheet_name) ==
    LET lp == Len(pattern.prefix)
        ls == Len(pattern.suffix)
        n  == Len(sheet_name)
    IN  IF pattern.any
        THEN /\ n >= lp + ls
             /\ SameIgnoringCase(SubSeq(sheet_name, 1, lp), pattern.prefix)
             /\ SameIgnoringCase(SubSeq(sheet_name, n - ls + 1, n), pattern.suffix)
        ELSE SameIgnoringCase(sheet_name, pattern.prefix \o pattern.suffix)

\* the inner loop of lines 52-56 from position i on: the first matching
\* name, appended once, then break
RECURSIVE ScanSheetNames(_, _, _)
ScanSheetNames(pattern, names, i) ==
    IF i > Len(names) THEN <<>>
    ELSE IF re_match(pattern, names[i]) THEN <<names[i]>>
    ELSE ScanSheetNames(pattern, names, i + 1)

\* the inner loop without its break: every matching name is appended
RECURSIVE ScanSheetNamesNoBreak(_, _, _)
ScanSheetNamesNoBreak(pattern, names, i) ==
    IF i > Len(names) THEN <<>>
    ELSE (IF re_match(pattern, names[i]) THEN <<names[i]>> ELSE <<>>)
         \o ScanSheetNamesNoBreak(pattern, names, i + 1)

\* the outer loop of lines 50-58 from pattern k on
RECURSIVE ScanPatterns(_, _, _)
ScanPatterns(patterns, names, k) ==
    IF k > Len(patterns) THEN <<>>
    ELSE ScanSheetNames(patterns[k], names, 1)
         \o ScanPatterns(patterns, names, k + 1)

RECURSIVE ScanPatternsNoBreak(_, _, _)
ScanPatternsNoBreak(patterns, names, k) ==
    IF k > Len(patterns) THEN <<>>
    ELSE ScanSheetNamesNoBreak(patterns[k], names, 1)
         \o ScanPatternsNoBreak(patterns, names, k + 1)

find_dynamic_sheets_NoBreak(names, fiscal_quarter_str, fiscal_month_overall_str, fiscal_month_in_quarter_str) ==
    ScanPatternsNoBreak(
        required_patterns(fiscal_quarter_str, fiscal_month_in_quarter_str),
        names, 1)

find_dynamic_sheets(names, fiscal_quarter_str, fiscal_month_overall_str, fiscal_month_in_quarter_str) ==
    ScanPatterns(
        required_patterns(fiscal_quarter_str, fiscal_month_in_quarter_str),
        names, 1)

-----------------------------------------------------------------------------
(* app.upload_file lines 110-122 (main.main lines 74-88): the ordered list *)

desired_order_bases == <<S_ExecView, S_Comparisons, S_Commit, S_MarginsScenarios>>

\* Python's `sub in s` on strings: case-sensitive
Contains(sub, s) ==
    \E i \in 1..(Len(s) - Len(sub) + 1) : SubSeq(s, i, i + Len(sub) - 1) = sub

\* next((s for s in identified if base in s), None), from position i on
RECURSIVE NextContaining(_, _, _)
NextContaining(base, identified, i) ==
    IF i > Len(identified) THEN <<>>
    ELSE IF Contains(base, identified[i]) THEN <<identified[i]>>
    ELSE NextContaining(base, identified, i + 1)

\* the loop of lines 115-120 from base k on
RECURSIVE OrderLoop(_, _)
OrderLoop(identified, k) ==
    IF k > Len(desired_order_bases) THEN <<>>
    ELSE NextContaining(desired_order_bases[k], identified, 1)
         \o OrderLoop(identified, k + 1)

OrderSheets(identified) == OrderLoop(identified, 1)

-----------------------------------------------------------------------------
(* Harness of sheet resolution: every workbook of up to MaxSheets sheets   *)
(* named from SheetUniverse, and the four-sheet workbook of the            *)
(* specification's example, on the first day of every month of a year      *)

MaxSheets == 3

N_MarginsScenarios == <<"M", "a", "r", "g", "i", "n", "s", " ", "S", "c", "e", "n", "a", "r", "i", "o", "s">>

N_M1Q1ExecView == <<"M", "1", " ", "Q", "1", " ", "E", "x", "e", "c", " ", "V", "i", "e", "w">>

N_Q1M1Comparisons == <<"Q", "1", " ", "M", "1", " ", "C", "o", "m", "p", "a", "r", "i", "s", "o", "n", "s">>

N_Q1Commit == <<"Q", "1", " ", "C", "o", "m", "m", "i", "t">>

N_m1execview == <<"m", "1", " ", "e", "x", "e", "c", " ", "v", "i", "e", "w">>

N_Q1M1ExecViewComparisons == <<"Q", "1", " ", "M", "1", " ", "E", "x", "e", "c", " ", "V", "i", "e", "w", " ", "C", "o", "m", "p", "a", "r", "i", "s", "o", "n", "s">>

N_Q2Commit == <<"Q", "2", " ", "C", "o", "m", "m", "i", "t">>

N_Notes == <<"N", "o", "t", "e", "s">>

SheetUniverse ==
    {N_MarginsScenarios, N_M1Q1ExecView, N_Q1M1Comparisons, N_Q1Commit,
     N_m1execview, N_Q1M1ExecViewComparisons, N_Q2Commit, N_Notes}

\* a workbook's sheet names differ pairwise, also when case is ignored
ExampleSheetNames ==
    <<N_M1Q1ExecView, N_MarginsScenarios, N_Q1Commit, N_Q1M1Comparisons>>

SheetLists ==
    UNION {{l \in [1..n -> SheetUniverse] :
               \A i, j \in 1..n : i # j => ~SameIgnoringCase(l[i], l[j])}
           : n \in 0..MaxSheets}
    \cup {ExampleSheetNames}

SheetDates == {[year |-> 2025, month |-> m, day |-> 1] : m \in 1..12}

InitSheets ==
    /\ sheet_names \in SheetLists
    /\ labels \in {get_fiscal_quarter_and_month(d) : d \in SheetDates}
    /\ sheet_pc = "start"
    /\ required_sheets = <<>>
    /\ identified_sheets = <<>>
    /\ ordered_sheets = <<>>
    /\ IdleCoord
    /\ IdleFiscal
    /\ IdleUpload
    /\ IdleUnits

\* excel_processor.preprocess_excel_xml line 168, for a workbook whose every
\* required sheet has content: the target workbook gets one sheet per
\* required sheet, in that order
SheetsPreprocess ==
    /\ sheet_pc = "start"
    /\ required_sheets' = find_dynamic_sheets(sheet_names, labels.quarter,
                              labels.month_overall, labels.month_in_quarter)
    /\ sheet_pc' = "preprocessed"
    /\ UNCHANGED <<sheet_names, labels, identified_sheets, ordered_sheets,
                   coordVars, fiscalVars, uploadVars, unitVars>>

\* app.upload_file line 107, on the sheet names of the preprocessed workbook
SheetsIdentify ==
    /\ sheet_pc = "preprocessed"
    /\ identified_sheets' = find_dynamic_sheets(required_sheets, labels.quarter,
                                labels.month_overall, labels.month_in_quarter)
    /\ sheet_pc' = "identified"
    /\ UNCHANGED <<sheet_names, labels, required_sheets, ordered_sheets,
                   coordVars, fiscalVars, uploadVars, unitVars>>

\* app.upload_file lines 110-122
SheetsOrder ==
    /\ sheet_pc = "identified"
    /\ ordered_sheets' = OrderSheets(identified_sheets)
    /\ sheet_pc' = "ordered"
    /\ UNCHANGED <<sheet_names, labels, required_sheets, identified_sheets,
                   coordVars, fiscalVars, uploadVars, unitVars>>

NextSheets == SheetsPreprocess \/ SheetsIdentify \/ SheetsOrder

SpecSheets == InitSheets /\ [][NextSheets]_vars

\* the least position of names holding a match of the pattern, as a list of
\* at most one name
FirstMatch(pattern, names) ==
    LET hits == {i \in 1..Len(names) : re_match(pattern, names[i])}
    IN  IF hits = {} THEN <<>>
        ELSE <<names[CHOOSE i \in hits : \A j \in hits : i <= j]>>

ExpectedMatches(names) ==
    LET ps == required_patterns(labels.quarter, labels.month_in_quarter)
    IN  FirstMatch(ps[1], names) \o FirstMatch(ps[2], names)
        \o FirstMatch(ps[3], names) \o FirstMatch(ps[4], names)

\* C5: find_dynamic_sheets returns, for each of the four role patterns, the
\* first name in list order that matches it case-insensitively and nothing
\* for a pattern without a match; for ["M1 Q1 Exec View", "Margins Scenarios",
\* "Q1 Commit", "Q1 M1 Comparisons"] with Q1 and M1 it returns those four.
C5_FirstMatchPerRole ==
    /\ sheet_pc \in {"preprocessed", "identified", "ordered"} =>
          /\ required_sheets = ExpectedMatches(sheet_names)
          /\ (/\ sheet_names = ExampleSheetNames
              /\ labels.quarter = <<"Q", "1">>
              /\ labels.month_in_quarter = <<"M", "1">>) =>
                 /\ Len(required_sheets) = 4
                 /\ {required_sheets[i] : i \in 1..4} =
                        {sheet_names[i] : i \in 1..4}
    /\ sheet_pc \in {"identified", "ordered"} =>
          identified_sheets = ExpectedMatches(required_sheets)

\* two names match the Exec View pattern and the earlier one is returned
C5_Witness ==
    /\ sheet_pc = "preprocessed"
    /\ sheet_names = <<N_m1execview, N_M1Q1ExecView, N_MarginsScenarios>>
    /\ labels.quarter = <<"Q", "1">>
    /\ labels.month_in_quarter = <<"M", "1">>
    /\ required_sheets = <<N_MarginsScenarios, N_m1execview>>

\* the sheet a role resolved to: the identified sheet matching its pattern
ResolvedSheet(k) ==
    FirstMatch(required_patterns(labels.quarter, labels.month_in_quarter)[k],
               identified_sheets)

\* C6: the ordered sheet list holds each resolved role's own sheet exactly
\* once, in the order Exec View, Comparisons, Commit, Margins Scenarios, and
\* nothing for an unresolved role.
C6_OrderedSheetsAreResolvedRoles ==
    sheet_pc = "ordered" =>
        ordered_sheets = ResolvedSheet(2) \o ResolvedSheet(3)
                         \o ResolvedSheet(4) \o ResolvedSheet(1)

-----------------------------------------------------------------------------
(* Static configuration: app.upload_file's base_regions (main.main's is the *)
(* same) and ppt_updater.update_ppt_labels' custom_order                    *)

ExecViewRegions ==
    <<
       <<<<"C", "3">>, <<"E", "1", "3">>>>,
       <<<<"F", "3">>, <<"F", "1", "3">>>>,
       <<<<"C", "1", "8">>, <<"E", "2", "4">>>>,
       <<<<"F", "1", "8">>, <<"F", "2", "4">>>>,
       <<<<"H", "1", "8">>, <<"H", "1", "8">>>>,
       <<<<"H", "2", "0">>, <<"H", "2", "2">>>>,
       <<<<"C", "2", "9">>, <<"E", "3", "6">>>>,
       <<<<"F", "2", "9">>, <<"F", "3", "6">>>>,
       <<<<"H", "2", "9">>, <<"H", "2", "9">>>>,
       <<<<"H", "3", "1">>, <<"H", "3", "3">>>>,
       <<<<"K", "3">>, <<"K", "3">>>>,
       <<<<"K", "4">>, <<"N", "1", "3">>>>,
       <<<<"O", "3">>, <<"O", "3">>>>,
       <<<<"R", "4">>, <<"R", "1", "3">>>>,
       <<<<"S", "3">>, <<"S", "3">>>>,
       <<<<"V", "4">>, <<"V", "1", "3">>>>,
       <<<<"W", "3">>, <<"W", "3">>>>,
       <<<<"W", "4">>, <<"W", "1", "3">>>>
    >>

ComparisonsRegions ==
    <<
       <<<<"K", "3">>, <<"K", "3">>>>,
       <<<<"K", "4">>, <<"N", "1", "3">>>>,
       <<<<"S", "3">>, <<"S", "1", "3">>>>,
       <<<<"T", "3">>, <<"T", "3">>>>,
       <<<<"W", "4">>, <<"W", "1", "3">>>>,
       <<<<"X", "3">>, <<"X", "1", "3">>>>,
       <<<<"A", "C", "3">>, <<"A", "C", "1", "3">>>>,
       <<<<"A", "D", "3">>, <<"A", "D", "3">>>>,
       <<<<"A", "G", "4">>, <<"A", "G", "1", "3">>>>,
       <<<<"A", "H", "3">>, <<"A", "H", "1", "3">>>>,
       <<<<"A", "M", "3">>, <<"A", "M", "1", "3">>>>,
       <<<<"A", "N", "3">>, <<"A", "N", "3">>>>,
       <<<<"A", "Q", "4">>, <<"A", "Q", "1", "3">>>>,
       <<<<"A", "R", "3">>, <<"A", "R", "1", "3">>>>
    >>

CommitRegions ==
    <<
       <<<<"C", "3">>, <<"C", "3">>>>,
       <<<<"C", "4">>, <<"F", "1", "3">>>>,
       <<<<"G", "3">>, <<"G", "3">>>>,
       <<<<"J", "4">>, <<"J", "1", "3">>>>,
       <<<<"K", "3">>, <<"K", "3">>>>,
       <<<<"N", "4">>, <<"N", "1", "3">>>>,
       <<<<"O", "3">>, <<"O", "3">>>>,
       <<<<"R", "4">>, <<"R", "1", "3">>>>,
       <<<<"S", "3">>, <<"S", "3">>>>,
       <<<<"V", "4">>, <<"V", "1", "3">>>>
    >>

MarginsScenariosRegions ==
    <<
       <<<<"B", "1", "5">>, <<"B", "1", "5">>>>,
       <<<<"B", "1", "6">>, <<"G", "1", "9">>>>,
       <<<<"B", "2", "0">>, <<"G", "2", "0">>>>,
       <<<<"B", "2", "5">>, <<"B", "2", "5">>>>,
       <<<<"B", "2", "6">>, <<"G", "2", "9">>>>,
       <<<<"B", "3", "0">>, <<"G", "3", "0">>>>,
       <<<<"B", "3", "2">>, <<"B", "3", "2">>>>,
       <<<<"B", "3", "3">>, <<"G", "3", "6">>>>,
       <<<<"B", "3", "7">>, <<"G", "3", "7">>>>,
       <<<<"B", "3", "9">>, <<"B", "3", "9">>>>,
       <<<<"B", "4", "0">>, <<"G", "4", "3">>>>,
       <<<<"B", "4", "4">>, <<"G", "4", "4">>>>,
       <<<<"B", "4", "6">>, <<"B", "4", "6">>>>,
       <<<<"B", "4", "7">>, <<"G", "5", "0">>>>,
       <<<<"B", "5", "1">>, <<"G", "5", "1">>>>,
       <<<<"I", "3", "9">>, <<"I", "3", "9">>>>,
       <<<<"I", "4", "0">>, <<"N", "4", "3">>>>,
       <<<<"I", "4", "4">>, <<"N", "4", "4">>>>
    >>

custom_order ==
    <<
       <<"a">>, <<"a", "a">>, <<"b">>, <<"b", "b">>, <<"c">>, <<"c", "c">>,
       <<"d">>, <<"d", "d">>, <<"e">>, <<"e", "e">>, <<"f">>, <<"g">>,
       <<"h">>, <<"i">>, <<"j">>, <<"k">>, <<"l">>, <<"f", "f">>,
       <<"m">>, <<"n">>, <<"o">>, <<"p">>, <<"q">>, <<"g", "g">>,
       <<"r">>, <<"s">>, <<"t">>, <<"h", "h">>, <<"u">>, <<"v">>,
       <<"w">>, <<"i", "i">>, <<"x">>, <<"y">>, <<"z">>, <<"a", "b">>,
       <<"a", "c">>, <<"a", "d">>, <<"a", "e">>, <<"a", "f">>, <<"a", "g">>, <<"a", "h">>,
       <<"A", "A">>, <<"A">>, <<"A", "B">>, <<"B", "B">>, <<"B">>, <<"B", "C">>,
       <<"C", "C">>, <<"C">>, <<"C", "D">>, <<"D", "D">>, <<"D">>, <<"D", "E">>,
       <<"E", "E">>, <<"E">>, <<"E", "F">>, <<"F", "F">>, <<"F">>, <<"F", "G">>
    >>

\* base_regions, in the insertion order of the dict
base_region_keys == <<S_ExecView, S_Comparisons, S_Commit, S_MarginsScenarios>>

base_regions ==
    <<ExecViewRegions, ComparisonsRegions, CommitRegions, MarginsScenariosRegions>>

-----------------------------------------------------------------------------
(* The upload pipeline: app.upload_file run by concurrent requests          *)

Requests == {"r1", "r2"}

F_a == <<"a", ".", "x", "l", "s", "x">>

F_b == <<"b", ".", "x", "l", "s", "x">>

\* config.TARGET_EXCEL_FILENAME as upload_file sets it: TEMP_DIR / this name
PreprocessedFilename == <<"p", "r", "e", "p", "r", "o", "c", "e", "s", "s", "e", "d", "_", "d", "a", "t", "a", ".", "x", "l", "s", "x">>

OutputSuffix ==
    <<" ", "P", "&", "L", " ", "R", "e", "v", "i", "e", "w", "_", "C", "i", "s", "c", "o", " ", "H", "i", "g", "h", "l", "y", " ", "C", "o", "n", "f", "i", "d", "e", "n", "t", "i", "a", "l", " ", "_", "W", "D", "-", "1", " ", "D", "R", "A", "F", "T", ".", "p", "p", "t", "x">>

\* the file names a client may give its upload
Filenames == {F_a, F_b}

\* new_ppt_filename of lines 100-102; str(fiscal_year)[2:] drops two characters
new_ppt_filename(f) ==
    f.month_in_quarter \o <<" ">> \o f.quarter \o <<"F", "Y">>
    \o SubSeq(str(f.year), 3, Len(str(f.year))) \o OutputSuffix

\* datetime.now(): every run of the model happens on this day (Q1, M1)
Today == [year |-> 2025, month |-> 8, day |-> 15]

TodayLabels == get_fiscal_quarter_and_month(Today)

\* The uploads of the model.  A workbook is its sheet names in order, the
\* sheets that hold neither a cell value nor a hidden row, and the value its
\* cells hold, in thousandths (numeric) or as text.
WbAll ==
    [kind |-> "xlsx",
     names |-> <<N_M1Q1ExecView, N_MarginsScenarios, N_Q1Commit,
                 N_Q1M1Comparisons, N_Notes>>,
     blank |-> {}, cell |-> [numeric |-> TRUE, milli |-> 300]]

WbThree ==
    [kind |-> "xlsx",
     names |-> <<N_MarginsScenarios, N_M1Q1ExecView, N_Q1M1Comparisons>>,
     blank |-> {}, cell |-> [numeric |-> TRUE, milli |-> 0]]

WbOne ==
    [kind |-> "xlsx", names |-> <<N_Q1Commit, N_Notes>>,
     blank |-> {}, cell |-> [numeric |-> TRUE, milli |-> 0 - 1200]]

WbNone ==
    [kind |-> "xlsx", names |-> <<N_Notes>>,
     blank |-> {}, cell |-> [numeric |-> FALSE, milli |-> 0]]

WbBlank ==
    [kind |-> "xlsx", names |-> <<N_MarginsScenarios>>,
     blank |-> {N_MarginsScenarios}, cell |-> [numeric |-> FALSE, milli |-> 0]]

\* an upload that is no zip archive
WbGarbage ==
    [kind |-> "garbage", names |-> <<>>,
     blank |-> {}, cell |-> [numeric |-> FALSE, milli |-> 0]]

Workbooks == {WbAll, WbThree, WbOne, WbNone, WbBlank, WbGarbage}

\* what the environment may do to a run: at most one of the template not
\* opening, the preprocessed workbook not saving, the presentation not saving
Faults == {"none", "template_open", "save_preprocessed", "save_presentation"}

\* a run uploads any workbook and meets no fault, or uploads the full
\* workbook and meets one
Scenarios ==
    {[workbook |-> w, fault |-> "none"] : w \in Workbooks}
    \cup {[workbook |-> WbAll, fault |-> f] : f \in Faults \ {"none"}}

NoFile == [kind |-> "none"]

Truncated == [kind |-> "truncated"]

NoResponse == [kind |-> "none"]

FreshRun ==
    [loaded |-> NoFile, identified |-> <<>>, ordered |-> <<>>,
     table_keys |-> <<>>, critical |-> FALSE,
     tables_loaded |-> FALSE, tables |-> <<>>]

FreshPrs == [opened |-> FALSE, shapes |-> <<>>, text |-> {}]

FreshHist ==
    [fatal |-> {}, paths |-> {}, collected |-> {}, updated |-> {},
     overlap |-> {}, steps |-> <<>>]

Init ==
    /\ files = <<>>
    /\ metadata = [owner |-> "import", entries |-> <<>>]
    /\ req \in [Requests -> [filename : Filenames, workbook : Workbooks,
                              fault : Faults]]
    /\ \A r \in Requests :
          [workbook |-> req[r].workbook, fault |-> req[r].fault] \in Scenarios
    /\ req["r1"].filename = F_a
    /\ pc = [r \in Requests |-> "start"]
    /\ run = [r \in Requests |-> FreshRun]
    /\ prs = [r \in Requests |-> FreshPrs]
    /\ response = [r \in Requests |-> NoResponse]
    /\ hist = [r \in Requests |-> FreshHist]
    /\ IdleCoord
    /\ IdleFiscal
    /\ IdleSheets
    /\ IdleUnits

Exists(path) == path \in DOMAIN files

Write(path, content) ==
    [q \in DOMAIN files \cup {path} |-> IF q = path THEN content ELSE files[q]]

Touch(r, path) == [hist[r] EXCEPT !.paths = @ \cup {path}]

\* the except clause of lines 185-187: an error response, no file
ErrorResponse == [kind |-> "error", status |-> 500]

\* lines 71-76: excel_file.save(TEMP_DIR / original_filename).  The history
\* keeps which requests were being handled while this one was.
SaveUpload(r) ==
    /\ pc[r] = "start"
    /\ files' = Write(req[r].filename, [kind |-> "upload", owner |-> r,
                                         wb |-> req[r].workbook])
    /\ hist' = [q \in DOMAIN hist |->
                   IF q = r
                   THEN [Touch(r, req[r].filename) EXCEPT
                           !.overlap = {p \in DOMAIN pc \ {r} :
                                           pc[p] \notin {"start", "done"}}]
                   ELSE IF pc[q] \notin {"start", "done"}
                   THEN [hist[q] EXCEPT !.overlap = @ \cup {r}]
                   ELSE hist[q]]
    /\ pc' = [pc EXCEPT ![r] = "preprocess"]
    /\ UNCHANGED <<metadata, req, run, prs, response,
                   coordVars, fiscalVars, sheetVars, unitVars>>

\* excel_processor.preprocess_excel_xml lines 180-190: a required sheet with
\* neither cell values nor hidden rows is skipped, the others are created
RECURSIVE CreatedSheets(_, _)
CreatedSheets(required, blank) ==
    IF required = <<>> THEN <<>>
    ELSE (IF Head(required) \in blank THEN <<>> ELSE <<Head(required)>>)
         \o CreatedSheets(Tail(required), blank)

\* tgt_wb.save(target_file), lines 205-209.  openpyxl opens the target for
\* writing (which empties it) and then serialises the workbook; a workbook
\* without a sheet makes it raise ("At least one sheet must be visible")
\* after the file was emptied.  A fault of the environment strikes before
\* the file was opened or after.
SaveOutcomes(r, created) ==
    IF created = <<>> THEN {"truncated"}
    ELSE IF req[r].fault = "save_preprocessed" THEN {"untouched", "truncated"}
    ELSE {"saved"}

\* line 86: preprocess_excel_xml(temp_input_excel_path, TARGET_EXCEL_FILENAME).
\* An upload that is no archive makes zipfile.ZipFile raise at line 162,
\* outside every try of the function; a failed save is caught at line 208
\* and the function returns normally.
Preprocess(r) ==
    /\ pc[r] = "preprocess"
    /\ LET src == files[req[r].filename]
       IN  IF src.wb.kind # "xlsx"
           THEN /\ pc' = [pc EXCEPT ![r] = "done"]
                /\ response' = [response EXCEPT ![r] = ErrorResponse]
                /\ hist' = [hist EXCEPT ![r].fatal = @ \cup {"source_open"}]
                /\ UNCHANGED files
           ELSE LET required == find_dynamic_sheets(src.wb.names,
                                    TodayLabels.quarter, TodayLabels.month_overall,
                                    TodayLabels.month_in_quarter)
                    created == CreatedSheets(required, src.wb.blank)
                    target == [kind |-> "xlsx", owner |-> src.owner,
                               sheets |-> created, cell |-> src.wb.cell]
                IN  \E outcome \in SaveOutcomes(r, created) :
                        /\ files' = (CASE outcome = "saved" ->
                                            Write(PreprocessedFilename, target)
                                       [] outcome = "truncated" ->
                                            Write(PreprocessedFilename, Truncated)
                                       [] outcome = "untouched" -> files)
                        /\ hist' = [hist EXCEPT ![r] =
                                       [Touch(r, PreprocessedFilename) EXCEPT
                                          !.fatal = IF outcome = "saved" THEN @
                                                    ELSE @ \cup {"save_preprocessed"}]]
                        /\ pc' = [pc EXCEPT ![r] = "load"]
                        /\ UNCHANGED response
    /\ UNCHANGED <<metadata, req, run, prs, coordVars, fiscalVars, sheetVars, unitVars>>

\* lines 160-164: the keys of table_regions, in insertion order (a sheet
\* listed twice in ordered_sheets is one key)
RECURSIVE TableKeys(_, _)
TableKeys(ordered, seen) ==
    IF ordered = <<>> THEN <<>>
    ELSE IF Head(ordered) \in seen THEN TableKeys(Tail(ordered), seen)
    ELSE <<Head(ordered)>> \o TableKeys(Tail(ordered), seen \cup {Head(ordered)})

\* line 162: next((k for k in base_regions if k in sheet_name), None), as a
\* position of base_regions (0: None)
BaseOf(sheet_name) ==
    LET hits == {k \in 1..Len(base_region_keys) :
                    Contains(base_region_keys[k], sheet_name)}
    IN  IF hits = {} THEN 0 ELSE CHOOSE k \in hits : \A j \in hits : k <= j

\* lines 89-128: load_workbook of the preprocessed file, the sheets
\* identified and ordered, the critical log.  A missing or unreadable file
\* raises, and the except clause answers with an error.
LoadWorkbook(r) ==
    /\ pc[r] = "load"
    /\ hist' = [hist EXCEPT ![r] = Touch(r, PreprocessedFilename)]
    /\ IF ~Exists(PreprocessedFilename) \/ files[PreprocessedFilename].kind # "xlsx"
       THEN /\ pc' = [pc EXCEPT ![r] = "done"]
            /\ response' = [response EXCEPT ![r] = ErrorResponse]
            /\ UNCHANGED run
       ELSE LET wb == files[PreprocessedFilename]
                identified == find_dynamic_sheets(wb.sheets,
                                  TodayLabels.quarter, TodayLabels.month_overall,
                                  TodayLabels.month_in_quarter)
                ordered == OrderSheets(identified)
            IN  /\ run' = [run EXCEPT ![r] =
                              [@ EXCEPT !.loaded = wb,
                                        !.identified = identified,
                                        !.ordered = ordered,
                                        !.table_keys = TableKeys(ordered, {}),
                                        !.critical =
                                            Len(ordered) < Len(desired_order_bases)]]
                /\ pc' = [pc EXCEPT ![r] = "tables"]
                /\ UNCHANGED response
    /\ UNCHANGED <<files, metadata, req, prs, coordVars, fiscalVars, sheetVars, unitVars>>

\* the shapes of the template's slide: two percentage bars and a title, all
\* children of the slide's shape tree (depth 0)
TemplateShapes ==
    << [name |-> <<"b", "a", "r", "_", "a", "a", "1">>, width |-> 1000, left |-> 100],
       [name |-> <<"b", "a", "r", "_", "F", "G", "1">>, width |-> 800, left |-> 200],
       [name |-> <<"T", "i", "t", "l", "e", " ", "1">>, width |-> 5000, left |-> 0] >>

\* a shape as Presentation() loads it; depth is the number of group shapes
\* around it, kind is "autoshape", "table" (a graphic frame holding a table)
\* or "group" (a group shape)
LoadedShape(name, width, left, depth, kind) ==
    [name |-> name, width |-> width, left |-> left, depth |-> depth,
     kind |-> kind, fill |-> "template", on_slide |-> TRUE]

TemplateSlide ==
    [i \in 1..Len(TemplateShapes) |->
        LoadedShape(TemplateShapes[i].name, TemplateShapes[i].width,
                    TemplateShapes[i].left, 0, "autoshape")]

\* re.match(r"^bar_([A-Za-z]{1,2}\d+)$", shape.name), line 259: group(1), or
\* <<>> without a match.  One or two letters, then digits up to the end.
BarKey(name) ==
    LET rest == SubSeq(name, 5, Len(name))
        nl == RunLen(rest, 1, TRUE)
        nd == RunLen(rest, nl + 1, FALSE)
    IN  IF /\ Len(name) >= 4
           /\ SubSeq(name, 1, 4) = <<"b", "a", "r", "_">>
           /\ nl \in {1, 2} /\ nd >= 1 /\ nl + nd = Len(rest)
        THEN rest ELSE <<>>

\* ppt_updater.load_tables_from_excel on the file now at file_path: a sheet
\* the file does not hold raises KeyError and is skipped (lines 92-96); each
\* other sheet gives one table per region of its base, read from that file
RECURSIVE LoadedTables(_, _)
LoadedTables(keys, file) ==
    IF keys = <<>> THEN <<>>
    ELSE (IF \E i \in 1..Len(file.sheets) : file.sheets[i] = Head(keys)
          THEN <<[sheet |-> Head(keys), base |-> BaseOf(Head(keys)),
                  owner |-> file.owner, cell |-> file.cell]>>
          ELSE <<>>)
         \o LoadedTables(Tail(keys), file)

\* lines 166-168.  Without a key the file is not opened at all.  A file
\* another run left truncated is either no archive (BadZipFile, which
\* load_tables_from_excel does not catch) or an archive without
\* xl/workbook.xml (KeyError: every sheet skipped).
LoadTables(r) ==
    /\ pc[r] = "tables"
    /\ LET file == files[PreprocessedFilename]
           keys == run[r].table_keys
       IN  \/ /\ keys = <<>> \/ file.kind = "xlsx"
              /\ run' = [run EXCEPT ![r] =
                            [@ EXCEPT !.tables_loaded = TRUE,
                                      !.tables = IF keys = <<>> THEN <<>>
                                                 ELSE LoadedTables(keys, file)]]
              /\ pc' = [pc EXCEPT ![r] = "template"]
              /\ UNCHANGED response
           \/ /\ keys # <<>> /\ file.kind = "truncated"
              /\ run' = [run EXCEPT ![r] =
                            [@ EXCEPT !.tables_loaded = TRUE, !.tables = <<>>]]
              /\ pc' = [pc EXCEPT ![r] = "template"]
              /\ UNCHANGED response
           \/ /\ keys # <<>> /\ file.kind = "truncated"
              /\ pc' = [pc EXCEPT ![r] = "done"]
              /\ response' = [response EXCEPT ![r] = ErrorResponse]
              /\ UNCHANGED run
    /\ hist' = [hist EXCEPT ![r] =
                   IF run[r].table_keys = <<>> THEN @
                   ELSE Touch(r, PreprocessedFilename)]
    /\ UNCHANGED <<files, metadata, req, prs, coordVars, fiscalVars, sheetVars, unitVars>>

\* update_ppt_labels line 378: Presentation(pptx_path)
OpenTemplate(r) ==
    /\ pc[r] = "template"
    /\ IF req[r].fault = "template_open"
       THEN /\ pc' = [pc EXCEPT ![r] = "done"]
            /\ response' = [response EXCEPT ![r] = ErrorResponse]
            /\ hist' = [hist EXCEPT ![r].fatal = @ \cup {"template_open"}]
            /\ UNCHANGED prs
       ELSE /\ prs' = [prs EXCEPT ![r] =
                          [opened |-> TRUE, shapes |-> TemplateSlide, text |-> {}]]
            /\ pc' = [pc EXCEPT ![r] = "collect"]
            /\ UNCHANGED <<response, hist>>
    /\ UNCHANGED <<files, metadata, req, run, coordVars, fiscalVars, sheetVars, unitVars>>

\* lines 258-264: the shape is stored in the dict.  The name matches and
\* the shape holds no table; the elif of line 276, about group shapes, is
\* reached only when the name did not match, and then its own test of the
\* name fails.
Recorded(shape) == BarKey(shape.name) # <<>> /\ shape.kind # "table"

\* _collect_initial_shape_data, lines 241-280, over the shapes of request
\* r's presentation from shape i on: a shape object is <<request, index>>.
\* The dict of the slide is keyed by shape.name: a name stored again keeps
\* its place and takes the later shape.
RECURSIVE CollectLoop(_, _)
CollectLoop(r, i) ==
    IF i > Len(prs[r].shapes) THEN <<>>
    ELSE LET shapes == prs[r].shapes
             same == {k \in 1..Len(shapes) :
                        Recorded(shapes[k]) /\ shapes[k].name = shapes[i].name}
             last == CHOOSE k \in same : \A j \in same : j <= k
         IN  (IF Recorded(shapes[i]) /\ \A k \in same : i <= k
              THEN <<[shape_obj |-> <<r, last>>,
                      original_width |-> shapes[last].width,
                      original_left |-> shapes[last].left,
                      xx_yy_key |-> BarKey(shapes[last].name)]>>
              ELSE <<>>)
             \o CollectLoop(r, i + 1)

\* the same, filling the module global only while it holds no entry
Collect_OnlyWhenEmpty(r) ==
    /\ pc[r] = "collect"
    /\ metadata' = IF metadata.entries = <<>>
                    THEN [owner |-> r, entries |-> CollectLoop(r, 1)]
                    ELSE metadata
    /\ hist' = [hist EXCEPT ![r].collected =
                   {e.shape_obj : e \in {CollectLoop(r, 1)[k] :
                                            k \in 1..Len(CollectLoop(r, 1))}},
                             ![r].steps = Append(@, "capture")]
    /\ pc' = [pc EXCEPT ![r] = "dates"]
    /\ UNCHANGED <<files, req, run, prs, response,
                   coordVars, fiscalVars, sheetVars, unitVars>>

\* update_ppt_labels line 404: the module global is rebound to a new dict
\* holding the bar shapes of this request's presentation
Collect(r) ==
    /\ pc[r] = "collect"
    /\ metadata' = [owner |-> r, entries |-> CollectLoop(r, 1)]
    /\ hist' = [hist EXCEPT ![r].collected =
                   {e.shape_obj : e \in {CollectLoop(r, 1)[k] :
                                            k \in 1..Len(CollectLoop(r, 1))}},
                             ![r].steps = Append(@, "capture")]
    /\ pc' = [pc EXCEPT ![r] = "dates"]
    /\ UNCHANGED <<files, req, run, prs, response,
                   coordVars, fiscalVars, sheetVars, unitVars>>

\* lines 406-407: _replace_date_tags(prs) rewrites the text of paragraphs
\* that hold a date tag; no shape is moved, resized or removed by it
ReplaceDateTags(r) ==
    /\ pc[r] = "dates"
    /\ hist' = [hist EXCEPT ![r].steps = Append(@, "date_tags")]
    /\ pc' = [pc EXCEPT ![r] = "tags"]
    /\ UNCHANGED <<files, metadata, req, run, prs, response,
                   coordVars, fiscalVars, sheetVars, unitVars>>

\* lines 409-464: numeric tags from the run's own tables; the model keeps
\* whose data the substituted text came from
ReplaceTags(r) ==
    /\ pc[r] = "tags"
    /\ prs' = [prs EXCEPT ![r].text =
                  {run[r].tables[i].owner : i \in 1..Len(run[r].tables)}]
    /\ hist' = [hist EXCEPT ![r].steps = Append(@, "numeric_tags")]
    /\ pc' = [pc EXCEPT ![r] = "bars"]
    /\ UNCHANGED <<files, metadata, req, run, response,
                   coordVars, fiscalVars, sheetVars, unitVars>>

\* lines 389-400: the tables of every sheet in the order of table_data, one
\* per region of the sheet's base; no more tables than custom_order has
\* prefixes.  A table is the region it was read from and the data it holds.
RECURSIVE FlattenTables(_)
FlattenTables(tables) ==
    IF tables = <<>> THEN <<>>
    ELSE [k \in 1..Len(base_regions[Head(tables).base]) |->
            [sheet |-> Head(tables).sheet, owner |-> Head(tables).owner,
             cell |-> Head(tables).cell,
             region |-> base_regions[Head(tables).base][k]]]
         \o FlattenTables(Tail(tables))

all_tbls_flat(tables) ==
    LET flat == FlattenTables(tables)
    IN  IF Len(flat) <= Len(custom_order) THEN flat
        ELSE SubSeq(flat, 1, Len(custom_order))

\* the same with positions counted from 1
lmap_get_FromOne(prefix, flat) ==
    LET hits == {k \in 1..Len(flat) : custom_order[k] = prefix}
    IN  IF hits = {} THEN 0 - 1
        ELSE CHOOSE k \in hits : \A j \in hits : j <= k

\* lmap.get(prefix): the index (from 0) of the table the prefix names, -1 for
\* None.  A later assignment to the same key of the dict wins.
lmap_get(prefix, flat) ==
    LET hits == {k \in 1..Len(flat) : custom_order[k] = prefix}
    IN  IF hits = {} THEN 0 - 1
        ELSE (CHOOSE k \in hits : \A j \in hits : j <= k) - 1

\* df.shape of the table read from a region: lines 100-101 and 106-108
df_shape(region) ==
    LET a == coordinate_to_tuple(region[1])
        b == coordinate_to_tuple(region[2])
    IN  [nrows |-> b.row - a.row + 1, ncols |-> b.col - a.col + 1]

\* the same with quotient and remainder exchanged
divmod_Exchanged(a, b) == [q |-> a % b, r |-> (a - (a % b)) \div b]

\* divmod(a, b) for b > 0, rounding towards minus infinity
divmod(a, b) == [q |-> (a - (a % b)) \div b, r |-> a % b]

\* round(n / d) of Python 3 for n >= 0, d > 0: a tie goes to the even integer
round(n, d) ==
    LET q == n \div d
        rem == n % d
    IN  IF 2 * rem > d THEN q + 1
        ELSE IF 2 * rem < d THEN q
        ELSE IF q % 2 = 0 THEN q ELSE q + 1

abs(x) == IF x < 0 THEN 0 - x ELSE x

\* the same, taking the width and left the shape has now as its baseline
UpdatedShape_CurrentGeometry(shape, info, flat) ==
    LET key == info.xx_yy_key
        nl == IF RunLen(key, 1, TRUE) > 2 THEN 2 ELSE RunLen(key, 1, TRUE)
        nd == RunLen(key, nl + 1, FALSE)
        prefix == SubSeq(key, 1, nl)
        table_index == lmap_get(prefix, flat)
        cell_index == int(SubSeq(key, nl + 1, nl + nd)) - 1
    IN  IF nl = 0 \/ nd = 0 THEN shape
        ELSE IF ~(0 <= table_index /\ table_index < Len(flat)) THEN shape
        ELSE LET df == flat[table_index + 1]
                 shp == df_shape(df.region)
                 pos == divmod(cell_index, shp.ncols)
                 pct == IF abs(df.cell.milli) > 1000 THEN 1000
                        ELSE abs(df.cell.milli)
             IN  IF ~(pos.q < shp.nrows /\ pos.r < shp.ncols) THEN shape
                 ELSE IF ~df.cell.numeric THEN shape
                 ELSE IF shape.kind = "group" THEN shape
                 ELSE IF pct >= 1000
                      THEN [shape EXCEPT !.width = shape.width,
                                         !.left = shape.left,
                                         !.fill = "GREEN"]
                 ELSE IF pct = 0
                      THEN (IF shape.depth = 0 /\ shape.on_slide
                            THEN [shape EXCEPT !.fill = "solid", !.on_slide = FALSE]
                            ELSE [shape EXCEPT !.fill = "solid"])
                 ELSE [shape EXCEPT
                         !.width = round(shape.width * pct, 1000),
                         !.left = shape.left,
                         !.fill = IF df.cell.milli > 0 THEN "GREEN" ELSE "RED"]

\* the body of the inner loop, lines 295-367, for one entry of the metadata:
\* the shape the entry holds, after the update (values in thousandths).
\* slide.shapes._spTree.remove(element) removes a child of the slide's shape
\* tree; for any other element it raises ValueError, which line 368 catches
\* after fill.solid() was applied.  A group shape has no fill: line 336
\* raises AttributeError, caught the same way before anything was changed.
UpdatedShape(shape, info, flat) ==
    LET key == info.xx_yy_key
        nl == IF RunLen(key, 1, TRUE) > 2 THEN 2 ELSE RunLen(key, 1, TRUE)
        nd == RunLen(key, nl + 1, FALSE)
        prefix == SubSeq(key, 1, nl)
        table_index == lmap_get(prefix, flat)
        cell_index == int(SubSeq(key, nl + 1, nl + nd)) - 1
    IN  IF nl = 0 \/ nd = 0 THEN shape
        ELSE IF ~(0 <= table_index /\ table_index < Len(flat)) THEN shape
        ELSE LET df == flat[table_index + 1]
                 shp == df_shape(df.region)
                 pos == divmod(cell_index, shp.ncols)
                 pct == IF abs(df.cell.milli) > 1000 THEN 1000
                        ELSE abs(df.cell.milli)
             IN  IF ~(pos.q < shp.nrows /\ pos.r < shp.ncols) THEN shape
                 ELSE IF ~df.cell.numeric THEN shape
                 ELSE IF shape.kind = "group" THEN shape
                 ELSE IF pct >= 1000
                      THEN [shape EXCEPT !.width = info.original_width,
                                         !.left = info.original_left,
                                         !.fill = "GREEN"]
                 ELSE IF pct = 0
                      THEN (IF shape.depth = 0 /\ shape.on_slide
                            THEN [shape EXCEPT !.fill = "solid", !.on_slide = FALSE]
                            ELSE [shape EXCEPT !.fill = "solid"])
                 ELSE [shape EXCEPT
                         !.width = round(info.original_width * pct, 1000),
                         !.left = info.original_left,
                         !.fill = IF df.cell.milli > 0 THEN "GREEN" ELSE "RED"]

\* the loops of lines 293-294 over the entries from i on: P is every
\* request's presentation
RECURSIVE UpdateLoop(_, _, _, _)
UpdateLoop(entries, i, flat, P) ==
    IF i > Len(entries) THEN P
    ELSE LET info == entries[i]
             o == info.shape_obj
         IN  UpdateLoop(entries, i + 1, flat,
                 [P EXCEPT ![o[1]].shapes[o[2]] = UpdatedShape(@, info, flat)])

\* update_ppt_labels line 467: _update_percentage_shapes(all_tbls_flat, lmap)
\* reads the module global as it is now
UpdateBars(r) ==
    /\ pc[r] = "bars"
    /\ LET after == UpdateLoop(metadata.entries, 1,
                               all_tbls_flat(run[r].tables), prs)
       IN  /\ prs' = after
           /\ hist' = [hist EXCEPT ![r].updated =
                          {o \in {metadata.entries[k].shape_obj :
                                     k \in 1..Len(metadata.entries)} :
                              after[o[1]].shapes[o[2]] # prs[o[1]].shapes[o[2]]},
                                    ![r].steps = Append(@, "bars")]
    /\ pc' = [pc EXCEPT ![r] = "save"]
    /\ UNCHANGED <<files, metadata, req, run, response,
                   coordVars, fiscalVars, sheetVars, unitVars>>

\* update_ppt_labels line 469: prs.save(output_path).  A save that fails
\* leaves the path as it was or holding an incomplete file.
SavePresentation(r) ==
    /\ pc[r] = "save"
    /\ LET path == new_ppt_filename(TodayLabels)
       IN  IF req[r].fault = "save_presentation"
           THEN /\ \/ UNCHANGED files
                   \/ files' = Write(path, Truncated)
                /\ pc' = [pc EXCEPT ![r] = "done"]
                /\ response' = [response EXCEPT ![r] = ErrorResponse]
                /\ hist' = [hist EXCEPT ![r] =
                               [Touch(r, path) EXCEPT
                                  !.fatal = @ \cup {"save_presentation"},
                                  !.steps = Append(@, "save")]]
           ELSE /\ files' = Write(path, [kind |-> "pptx", owner |-> r,
                                         shapes |-> prs[r].shapes,
                                         text |-> prs[r].text])
                /\ pc' = [pc EXCEPT ![r] = "send"]
                /\ hist' = [hist EXCEPT ![r] =
                               [Touch(r, path) EXCEPT
                                  !.steps = Append(@, "save")]]
                /\ UNCHANGED response
    /\ UNCHANGED <<metadata, req, run, prs, coordVars, fiscalVars, sheetVars, unitVars>>

\* lines 180-183: send_file(output_ppt_path) sends what the path holds now
SendFile(r) ==
    /\ pc[r] = "send"
    /\ response' = [response EXCEPT ![r] =
                       [kind |-> "file",
                        content |-> files[new_ppt_filename(TodayLabels)]]]
    /\ hist' = [hist EXCEPT ![r] = Touch(r, new_ppt_filename(TodayLabels))]
    /\ pc' = [pc EXCEPT ![r] = "done"]
    /\ UNCHANGED <<files, metadata, req, run, prs,
                   coordVars, fiscalVars, sheetVars, unitVars>>

Next ==
    \E r \in Requests :
        \/ SaveUpload(r)
        \/ Preprocess(r)
        \/ LoadWorkbook(r)
        \/ LoadTables(r)
        \/ OpenTemplate(r)
        \/ Collect(r)
        \/ ReplaceDateTags(r)
        \/ ReplaceTags(r)
        \/ UpdateBars(r)
        \/ SavePresentation(r)
        \/ SendFile(r)

Spec == Init /\ [][Next]_vars

-----------------------------------------------------------------------------
(* Claims about the upload pipeline *)

InFlight(r) == pc[r] \notin {"start", "done"}

\* C1: under every interleaving of two requests, the bar shapes a request's
\* _update_percentage_shapes step resizes, recolours or removes are shapes
\* the same request recorded in its own _collect_initial_shape_data step,
\* and the metadata a request is about to read is the one it captured.
C1_BarsUpdatedAreOwnBars ==
    \A r \in Requests :
        /\ hist[r].updated \subseteq hist[r].collected
        /\ pc[r] = "bars" => metadata.owner = r

\* C2: two requests in flight never use the same temporary path, so the
\* preprocessed workbook a request loads and the presentation it returns
\* come from its own upload.
C2_PathsArePerRequest ==
    \A r \in Requests :
        /\ \A q \in Requests \ {r} :
              InFlight(r) /\ InFlight(q) => hist[r].paths \cap hist[q].paths = {}
        /\ run[r].loaded.kind = "xlsx" => run[r].loaded.owner = r
        /\ response[r].kind = "file" =>
              /\ response[r].content.kind = "pptx"
              /\ response[r].content.owner = r
              /\ response[r].content.text \subseteq {r}

\* C3: after the upload or the template could not be opened, or the
\* preprocessed workbook or the presentation could not be saved, the run
\* returns an error response and no presentation, and a run whose workbook
\* failed neither loads tables nor fills the template.
C3_FatalFailureAborts ==
    \A r \in Requests :
        hist[r].fatal # {} =>
            /\ response[r].kind # "file"
            /\ pc[r] = "done" => response[r] = ErrorResponse
            /\ hist[r].fatal \cap {"source_open", "save_preprocessed"} # {} =>
                  ~run[r].tables_loaded /\ ~prs[r].opened

\* the number of roles that resolve to a sheet of the workbook r uploads
ResolvedRoles(r) ==
    Len(find_dynamic_sheets(req[r].workbook.names, TodayLabels.quarter, TodayLabels.month_overall, TodayLabels.month_in_quarter))

\* C4: a run alone on the server, of a readable workbook and without a fault
\* of the environment, in which fewer than four roles resolve (none
\* included) logs the critical condition, loads the tables, fills the
\* template and returns a presentation.
C4_FewerRolesIsNotFatal ==
    \A r \in Requests :
        ( /\ \A q \in Requests \ {r} : pc[q] = "start"
          /\ pc[r] = "done"
          /\ req[r].workbook.kind = "xlsx" /\ req[r].fault = "none"
          /\ ResolvedRoles(r) < Len(desired_order_bases) )
        => /\ response[r].kind = "file"
           /\ run[r].critical
           /\ run[r].tables_loaded /\ prs[r].opened

-----------------------------------------------------------------------------
(* ppt_updater.load_tables_from_excel on one region of one sheet, read from *)
(* a workbook directly and after excel_processor.preprocess_excel_xml       *)

MaxRow == 4

MaxCol == 3

\* A sheet of a workbook file: its used range is rows 1..max_row by columns
\* 1..max_col and every cell of the used range holds a value (here the
\* coordinates of the cell, so that a table shows where its cells come
\* from); rows flagged hidden; <col> ranges [min, max] flagged hidden.  The
\* cells in formulas hold a string that begins with "=", the cells in blank
\* hold nothing.
Cell(r, c) == <<r, c>>

\* the string beginning with "=" that the cell (r, c) holds
FormulaText(r, c) == <<r, c, 0>>

\* isinstance(x, str) and x.startswith("="), line 134
StartsWithEquals(x) == Len(x) = 3

\* NaN in a DataFrame, None as the value of an openpyxl cell
Missing == <<0>>

\* what fillna("") leaves for a cell without a value
EmptyCell == <<>>

\* the value both readers (pandas through openpyxl with data_only, and the
\* data_only workbook passed in) find in a cell
cell_value_of(sheet, r, c) ==
    IF r > sheet.max_row \/ c > sheet.max_col THEN Missing
    ELSE IF <<r, c>> \in sheet.blank THEN Missing
    ELSE IF <<r, c>> \in sheet.formulas THEN FormulaText(r, c)
    ELSE Cell(r, c)

ColumnLetters == <<"A", "B", "C", "D", "E">>

CellRef(r, c) == <<ColumnLetters[c]>> \o str(r)

\* _get_hidden_rows_cols_from_xml, lines 37-55: the rows with hidden="1" and
\* the columns of every <col> range with hidden="1"
get_hidden_rows_cols_from_xml(sheet) ==
    [hidden_rows |-> sheet.hidden_rows,
     hidden_cols |-> UNION {rg[1]..rg[2] : rg \in sheet.hidden_col_ranges}]

\* pd.read_excel(header=None, skiprows=r1 - 1, nrows=r2 - r1 + 1,
\* usecols="<c1>:<c2>"), lines 105-114.  The reader yields the rows of the
\* used range only; with no row left after skiprows the result is an empty
\* DataFrame; a usecols column beyond the width of the data is an error.
read_excel(sheet, r1, c1, r2, c2) ==
    LET last == IF r2 < sheet.max_row THEN r2 ELSE sheet.max_row
    IN  IF r1 > last THEN [kind |-> "df", rows |-> <<>>, ncols |-> 0]
        ELSE IF c2 > sheet.max_col THEN [kind |-> "ParserError"]
        ELSE [kind |-> "df",
              rows |-> [i \in 1..(last - r1 + 1) |->
                          [j \in 1..(c2 - c1 + 1) |->
                              cell_value_of(sheet, r1 + i - 1, c1 + j - 1)]],
              ncols |-> c2 - c1 + 1]

\* df.drop(index=drop).reset_index(drop=True), and the same for columns:
\* the elements of seq from position i on whose position (from 0) is not in
\* drop
RECURSIVE DropAt(_, _, _)
DropAt(seq, drop, i) ==
    IF i > Len(seq) THEN <<>>
    ELSE (IF (i - 1) \in drop THEN <<>> ELSE <<seq[i]>>)
         \o DropAt(seq, drop, i + 1)

\* the elements of a set of numbers in increasing order
RECURSIVE Sorted(_)
Sorted(S) ==
    IF S = {} THEN <<>>
    ELSE LET m == CHOOSE x \in S : \A y \in S : x <= y
         IN  <<m>> \o Sorted(S \ {m})

\* the same, without passing over hidden rows
extract_openpyxl_block_KeepHidden(sheet, r1, c1, r2, c2, hidden_rows, hidden_cols) ==
    LET rs == Sorted(r1..r2)
        cs == Sorted({c \in c1..c2 : c \notin hidden_cols})
    IN  [i \in 1..Len(rs) |-> [j \in 1..Len(cs) |-> cell_value_of(sheet, rs[i], cs[j])]]

\* _extract_openpyxl_block, lines 57-77: the values of the region's cells in
\* the workbook, hidden rows and hidden columns passed over
extract_openpyxl_block(sheet, r1, c1, r2, c2, hidden_rows, hidden_cols) ==
    LET rs == Sorted({r \in r1..r2 : r \notin hidden_rows})
        cs == Sorted({c \in c1..c2 : c \notin hidden_cols})
    IN  [i \in 1..Len(rs) |-> [j \in 1..Len(cs) |-> cell_value_of(sheet, rs[i], cs[j])]]

\* df.fillna(""), line 139
fillna(x) == IF x = Missing THEN EmptyCell ELSE x

\* the body of the region loop, lines 99-145, for one (start, end)
load_region(sheet, start, end) ==
    LET hidden == get_hidden_rows_cols_from_xml(sheet)
        a == coordinate_to_tuple(start)
        b == coordinate_to_tuple(end)
        df == read_excel(sheet, a.row, a.col, b.row, b.col)
    IN  IF df.kind # "df" THEN [kind |-> "skipped"]
        ELSE LET drop_r == {k \in {h - a.row : h \in {x \in hidden.hidden_rows :
                                       a.row <= x /\ x <= b.row}} :
                               k < Len(df.rows)}
                 kept == DropAt(df.rows, drop_r, 1)
                 drop_c == {k \in {h - a.col : h \in {x \in hidden.hidden_cols :
                                       a.col <= x /\ x <= b.col}} :
                               k < df.ncols}
                 dropped == [i \in 1..Len(kept) |-> DropAt(kept[i], drop_c, 1)]
                 fallback == extract_openpyxl_block(sheet, a.row, a.col, b.row, b.col,
                                 hidden.hidden_rows, hidden.hidden_cols)
             IN  [kind |-> "table",
                  rows |-> [i \in 1..Len(dropped) |->
                              [j \in 1..Len(dropped[i]) |->
                                  fillna(IF StartsWithEquals(dropped[i][j])
                                         THEN fallback[i][j]
                                         ELSE dropped[i][j])]],
                  ncols |-> df.ncols - Cardinality(drop_c)]

\* preprocess_excel_xml lines 180-201 for one sheet: the cells that hold a
\* value are copied, the hidden flag of a row is copied when the row is not
\* below the last row holding a value, and nothing is copied for columns.
\* openpyxl stores a string that begins with "=" as a formula, which has no
\* cached value in the file it writes.
preprocess_sheet(sheet) ==
    [max_row |-> sheet.max_row, max_col |-> sheet.max_col,
     hidden_rows |-> {h \in sheet.hidden_rows : h <= sheet.max_row},
     hidden_col_ranges |-> {},
     formulas |-> {}, blank |-> sheet.blank \cup sheet.formulas]

ColRanges == {<<mn, mx>> \in (1..MaxCol) \X (1..MaxCol) : mn <= mx}

SourceSheets ==
    [max_row : (MaxRow - 1)..MaxRow, max_col : (MaxCol - 1)..MaxCol,
     hidden_rows : SUBSET (1..MaxRow),
     hidden_col_ranges : {{}} \cup {{rg} : rg \in ColRanges},
     formulas : {{}}, blank : {{}}]

Regions ==
    {<<CellRef(r1, c1), CellRef(r2, c2)>> :
        <<r1, c1, r2, c2>> \in {q \in (1..MaxRow) \X (1..MaxCol) \X (1..MaxRow) \X (1..MaxCol) :
                                   q[1] <= q[3] /\ q[2] <= q[4]}}

InitRegion ==
    /\ src_sheet \in SourceSheets
    /\ table_region \in Regions
    /\ direct_df = NotCalled
    /\ target_sheet = NotCalled
    /\ pipeline_df = NotCalled
    /\ IdleBase
    /\ IdleNonRegion

\* load_tables_from_excel on the source workbook itself
LoadDirect ==
    /\ direct_df = NotCalled
    /\ direct_df' = load_region(src_sheet, table_region[1], table_region[2])
    /\ UNCHANGED <<src_sheet, table_region, target_sheet, pipeline_df, baseVars, nonRegionVars>>

PreprocessSheet ==
    /\ target_sheet = NotCalled
    /\ target_sheet' = preprocess_sheet(src_sheet)
    /\ UNCHANGED <<src_sheet, table_region, direct_df, pipeline_df, baseVars, nonRegionVars>>

\* load_tables_from_excel on the preprocessed workbook, as upload_file does
LoadPreprocessed ==
    /\ target_sheet # NotCalled
    /\ pipeline_df = NotCalled
    /\ pipeline_df' = load_region(target_sheet, table_region[1], table_region[2])
    /\ UNCHANGED <<src_sheet, table_region, direct_df, target_sheet, baseVars, nonRegionVars>>

NextRegion == LoadDirect \/ PreprocessSheet \/ LoadPreprocessed

SpecRegion == InitRegion /\ [][NextRegion]_vars

\* the rows and the columns of the region that are not hidden in the sheet
VisibleRows(sheet, reg) ==
    Sorted({r \in coordinate_to_tuple(reg[1]).row..coordinate_to_tuple(reg[2]).row : r \notin sheet.hidden_rows})

VisibleCols(sheet, reg) ==
    Sorted({c \in coordinate_to_tuple(reg[1]).col..coordinate_to_tuple(reg[2]).col : \A rg \in sheet.hidden_col_ranges : c < rg[1] \/ c > rg[2]})

\* the rectangular table of a region: a cell outside the used range is empty
RegionTable(sheet, reg) ==
    [i \in 1..Len(VisibleRows(sheet, reg)) |->
        [j \in 1..Len(VisibleCols(sheet, reg)) |->
            IF /\ VisibleRows(sheet, reg)[i] <= sheet.max_row
               /\ VisibleCols(sheet, reg)[j] <= sheet.max_col
            THEN Cell(VisibleRows(sheet, reg)[i], VisibleCols(sheet, reg)[j])
            ELSE EmptyCell]]

\* C11: for every region and every hidden-row and hidden-column set, the
\* table load_tables_from_excel returns for the region has exactly the
\* region's non-hidden rows and non-hidden columns, in source order.
C11_TableIsVisibleRegion ==
    direct_df # NotCalled =>
        /\ direct_df.kind = "table"
        /\ direct_df.rows = RegionTable(src_sheet, table_region)

\* the cells of a loaded table
CellsOf(df) ==
    IF df.kind # "table" THEN {}
    ELSE {df.rows[i][j] : <<i, j>> \in {q \in (1..MaxRow) \X (1..MaxCol) :
                                           q[1] <= Len(df.rows) /\ q[2] <= Len(df.rows[q[1]])}}

\* C12: in the pipeline (preprocess, then load from the preprocessed file)
\* no row and no column flagged hidden in the source sheet is in the table.
C12_HiddenAbsentAfterPipeline ==
    pipeline_df # NotCalled =>
        \A cell \in CellsOf(pipeline_df) :
            /\ cell[1] \notin src_sheet.hidden_rows
            /\ \A rg \in src_sheet.hidden_col_ranges : cell[2] < rg[1] \/ cell[2] > rg[2]

-----------------------------------------------------------------------------
(* ppt_updater.update_ppt_labels: the flat table list and the prefix map   *)

MaxDataSheets == 5

\* the sheet names table_data may have as keys: those upload_file finds a
\* base for
DataSheetNames == {n \in SheetUniverse : BaseOf(n) # 0}

\* table_data as load_tables_from_excel builds it: one entry per sheet
TableDataOf(names) ==
    [i \in 1..Len(names) |->
        [sheet |-> names[i], base |-> BaseOf(names[i]), owner |-> "r1",
         cell |-> [numeric |-> TRUE, milli |-> 300]]]

RECURSIVE DistinctSeqs(_, _)
DistinctSeqs(S, n) ==
    IF n = 0 THEN {<<>>}
    ELSE {<<>>} \cup {<<x>> \o q : <<x, q>> \in {pr \in S \X DistinctSeqs(S, n - 1) :
                                                   \A i \in 1..Len(pr[2]) : pr[2][i] # pr[1]}}

\* the dict lmap after the loop of lines 392-400
lmap(flat) ==
    [prefix \in {custom_order[k] : k \in 1..Len(flat)} |-> lmap_get(prefix, flat)]

InitPrefix ==
    /\ table_data \in {TableDataOf(names) : names \in DistinctSeqs(DataSheetNames, MaxDataSheets)}
    /\ prefix_result = NotCalled
    /\ IdleBase
    /\ IdleNonPrefix

\* update_ppt_labels lines 389-400
CallFlatten ==
    /\ prefix_result = NotCalled
    /\ prefix_result' = [all_tbls_flat |-> all_tbls_flat(table_data),
                         lmap |-> lmap(all_tbls_flat(table_data))]
    /\ UNCHANGED <<table_data, baseVars, nonPrefixVars>>

NextPrefix == CallFlatten

SpecPrefix == InitPrefix /\ [][NextPrefix]_vars

\* the number of tables of table_data
RECURSIVE TableCount(_)
TableCount(td) ==
    IF td = <<>> THEN 0
    ELSE Len(base_regions[Head(td).base]) + TableCount(Tail(td))

\* the k-th table in traversal order: sheets in order, regions in order
RECURSIVE KthTable(_, _)
KthTable(td, k) ==
    IF k <= Len(base_regions[Head(td).base])
    THEN [sheet |-> Head(td).sheet, owner |-> Head(td).owner,
          cell |-> Head(td).cell, region |-> base_regions[Head(td).base][k]]
    ELSE KthTable(Tail(td), k - Len(base_regions[Head(td).base]))

\* C13: the k-th table in traversal order is assigned to the k-th prefix of
\* custom_order; the prefix map is injective; every mapped index is a
\* position of the flat list, which holds that k-th table; the tables beyond
\* the length of custom_order are dropped and change no earlier assignment.
C13_PrefixMapFollowsTraversal ==
    prefix_result # NotCalled =>
        LET flat == prefix_result.all_tbls_flat
            lm == prefix_result.lmap
            n == TableCount(table_data)
        IN  /\ Len(flat) = IF n < Len(custom_order) THEN n ELSE Len(custom_order)
            /\ DOMAIN lm = {custom_order[k] : k \in 1..Len(flat)}
            /\ \A k \in 1..Len(flat) :
                  /\ lm[custom_order[k]] = k - 1
                  /\ flat[lm[custom_order[k]] + 1] = KthTable(table_data, k)
            /\ \A x \in DOMAIN lm, y \in DOMAIN lm : lm[x] = lm[y] => x = y
            /\ \A x \in DOMAIN lm : 0 <= lm[x] /\ lm[x] < Len(flat)

\* more tables than prefixes, and the last prefix mapped
C13_Witness ==
    /\ prefix_result # NotCalled
    /\ TableCount(table_data) > Len(custom_order)
    /\ Len(prefix_result.all_tbls_flat) = Len(custom_order)
    /\ prefix_result.lmap[custom_order[Len(custom_order)]] = Len(custom_order) - 1

-----------------------------------------------------------------------------
(* ppt_updater._format_custom_value and the numeric tags of one run         *)

\* A cell value is a float, kept in hundredths ([numeric |-> TRUE, centi]),
\* or a string ([numeric |-> FALSE, text]); fillna("") makes an empty cell
\* the empty string.
Num(centi) == [numeric |-> TRUE, centi |-> centi]

Text(t) == [numeric |-> FALSE, text |-> t]

MillionsPrefixes ==
    {<<"a">>, <<"b">>, <<"c">>, <<"d">>, <<"e">>, <<"f">>, <<"g">>, <<"h">>,
     <<"i">>, <<"j">>, <<"k">>, <<"l">>, <<"m">>, <<"n">>, <<"o">>, <<"p">>,
     <<"q">>, <<"r">>, <<"s">>, <<"t">>, <<"u">>, <<"v">>, <<"w">>, <<"x">>,
     <<"y">>, <<"z">>, <<"a", "b">>, <<"a", "c">>, <<"a", "d">>,
     <<"a", "e">>, <<"a", "f">>, <<"a", "g">>, <<"a", "h">>}

IntegerPercentPrefixes ==
    {<<"a", "a">>, <<"b", "b">>, <<"c", "c">>, <<"d", "d">>, <<"e", "e">>,
     <<"f", "f">>, <<"g", "g">>, <<"h", "h">>, <<"i", "i">>}

DecimalPercentPrefixes ==
    {<<"A", "B">>, <<"B", "C">>, <<"C", "D">>, <<"D", "E">>, <<"E", "F">>,
     <<"F", "G">>, <<"H", "H">>, <<"I", "I">>}

ThousandsPrefixes ==
    {<<"A">>, <<"B">>, <<"C">>, <<"D">>, <<"E">>, <<"F">>}

\* str() of an integer
str_int(n) == IF n < 0 THEN <<"-">> \o str(0 - n) ELSE str(n)

\* three digits of a number below 1000
ZeroPad3(k) ==
    (IF k < 100 THEN <<"0">> ELSE <<>>) \o (IF k < 10 THEN <<"0">> ELSE <<>>) \o str(k)

\* f"{n:,}" of an integer: groups of three digits
RECURSIVE Grouped(_)
Grouped(m) ==
    IF m < 1000 THEN str(m)
    ELSE Grouped(m \div 1000) \o <<",">> \o ZeroPad3(m % 1000)

format_grouped(n) == IF n < 0 THEN <<"-">> \o Grouped(0 - n) ELSE Grouped(n)

\* f"{x:.1f}" of a number x >= 0 whose tenfold is num / den: one decimal,
\* rounded to nearest
format_1f(num, den) ==
    LET tenths == round(num, den)
    IN  str(tenths \div 10) \o <<".">> \o str(tenths % 10)

\* str() of a float with at most two decimals
str_float(centi) ==
    LET m == abs(centi)
        frac == m % 100
    IN  (IF centi < 0 THEN <<"-">> ELSE <<>>) \o str(m \div 100) \o <<".">>
        \o (IF frac % 10 = 0 THEN str(frac \div 10)
            ELSE (IF frac < 10 THEN <<"0">> ELSE <<>>) \o str(frac))

\* floor division by a positive number, as // of Python
floordiv(a, b) == (a - (a % b)) \div b

\* int() of a float: towards zero
int_float(centi) == IF centi < 0 THEN 0 - ((0 - centi) \div 100) ELSE centi \div 100

\* _format_custom_value(prefix, value)[0], lines 193-238
format_custom_value(prefix, value) ==
    IF ~value.numeric THEN value.text
    ELSE IF prefix \in MillionsPrefixes
         THEN (IF value.centi < 0
               THEN <<"(">> \o format_1f(abs(value.centi), 10000000) \o <<")">>
               ELSE format_1f(value.centi, 10000000))
    ELSE IF prefix \in IntegerPercentPrefixes
         THEN format_grouped(value.centi) \o <<"%">>
    ELSE IF prefix \in DecimalPercentPrefixes
         THEN str_int(value.centi) \o <<".", "0", "%">>
    ELSE IF prefix \in ThousandsPrefixes
         THEN format_grouped(floordiv(int_float(value.centi), 1000))
    ELSE str_float(value.centi)

\* pat.match at position i of the text, pat = \{\{([A-Za-z]{1,2})(\d+)}}:
\* the groups and the length of the match, or NotCalled without one.  One
\* or two letters must be followed by a digit, so a run of three letters
\* does not match.
TagMatchAt(text, i) ==
    LET nl == RunLen(text, i + 2, TRUE)
        nd == RunLen(text, i + 2 + nl, FALSE)
        close == i + 2 + nl + nd
    IN  IF /\ i + 1 <= Len(text) /\ text[i] = "{" /\ text[i + 1] = "{"
           /\ nl \in {1, 2} /\ nd >= 1
           /\ close + 1 <= Len(text) /\ text[close] = "}" /\ text[close + 1] = "}"
        THEN [prefix |-> SubSeq(text, i + 2, i + 1 + nl),
              number |-> SubSeq(text, i + 2 + nl, close - 1),
              start |-> i, length |-> nl + nd + 4]
        ELSE NotCalled

\* pat.findall(text) from position i on: the matches from left to right,
\* none overlapping another
RECURSIVE findall(_, _)
findall(text, i) ==
    IF i > Len(text) THEN <<>>
    ELSE IF TagMatchAt(text, i) # NotCalled
         THEN <<TagMatchAt(text, i)>> \o findall(text, i + TagMatchAt(text, i).length)
         ELSE findall(text, i + 1)

\* text.replace(old, new): every occurrence, from left to right
RECURSIVE replace(_, _, _)
replace(text, old, new) ==
    IF Len(text) < Len(old) THEN text
    ELSE IF SubSeq(text, 1, Len(old)) = old
         THEN new \o replace(SubSeq(text, Len(old) + 1, Len(text)), old, new)
         ELSE <<Head(text)>> \o replace(Tail(text), old, new)

\* f"{{{{{prefix}{number}}}}}"
TokenOf(prefix, number) == <<"{", "{">> \o prefix \o number \o <<"}", "}">>

\* the loop over the matches of one run, lines 416-433 (and 445-461), from
\* match k on: the text, the calls of replace made, or the exception raised.
\* divmod by zero columns raises ZeroDivisionError; df.iat takes a negative
\* row from the end and raises IndexError beyond it.
RECURSIVE TagLoop(_, _, _, _, _)
TagLoop(matches, k, updated_text, replaced, flat) ==
    IF k > Len(matches)
    THEN [kind |-> "text", text |-> updated_text, replaced |-> replaced]
    ELSE LET prefix == matches[k].prefix
             number == matches[k].number
             table_index == lmap_get(prefix, flat)
             cell_index == int(number) - 1
         IN  IF ~(0 <= table_index /\ table_index < Len(flat))
             THEN TagLoop(matches, k + 1, updated_text, replaced, flat)
             ELSE LET df == flat[table_index + 1]
                      ncols == df.ncols
                      nrows == Len(df.rows)
                  IN  IF ncols = 0
                      THEN [kind |-> "raised", error |-> "ZeroDivisionError"]
                      ELSE LET pos == divmod(cell_index, ncols)
                           IN  IF ~(pos.q < nrows /\ pos.r < ncols)
                               THEN TagLoop(matches, k + 1, updated_text, replaced, flat)
                               ELSE IF pos.q < 0 - nrows \/ pos.r < 0 - ncols
                               THEN [kind |-> "raised", error |-> "IndexError"]
                               ELSE LET row == IF pos.q < 0 THEN nrows + pos.q ELSE pos.q
                                        col == IF pos.r < 0 THEN ncols + pos.r ELSE pos.r
                                        value == df.rows[row + 1][col + 1]
                                        formatted_value == format_custom_value(prefix, value)
                                        token == TokenOf(prefix, number)
                                    IN  TagLoop(matches, k + 1,
                                                replace(updated_text, token, formatted_value),
                                                Append(replaced, [token |-> token, by |-> formatted_value]),
                                                flat)

\* lines 414-436 for one run: run.text afterwards
replace_numeric_tags(original_text, flat) ==
    TagLoop(findall(original_text, 1), 1, original_text, <<>>, flat)

MaxPieces == 2

\* the tables of the harness
T_Main ==
    [kind |-> "table", ncols |-> 2,
     rows |-> << <<Num(0 - 250000000), Num(123456700)>>,
                 <<Text(<<"n", "/", "a">>), Num(340000000)>> >>]

T_Pct == [kind |-> "table", ncols |-> 1, rows |-> << <<Num(56)>> >>]

\* a region below the used range: an empty DataFrame
T_Empty == [kind |-> "table", ncols |-> 0, rows |-> <<>>]

\* a region whose rows are all hidden
T_NoRows == [kind |-> "table", ncols |-> 2, rows |-> <<>>]

\* a cell holding text that has the form of a tag
T_TagText ==
    [kind |-> "table", ncols |-> 1,
     rows |-> << <<Text(<<"{", "{", "a", "a", "1", "}", "}">>)>> >>]

TagFlats ==
    {<<T_Main, T_Pct>>, <<T_Main>>, <<T_Empty, T_Pct>>, <<T_NoRows, T_Pct>>,
     <<T_TagText, T_Pct>>}

\* the pieces run texts are made of: literal text and tokens
Pieces ==
    {<<"R", "e", "v", "e", "n", "u", "e", ":", " ">>,
     <<" ", "(">>,
     <<"{", "{", "a", "1", "}", "}">>,
     <<"{", "{", "a", "4", "}", "}">>,
     <<"{", "{", "a", "3", "}", "}">>,
     <<"{", "{", "a", "a", "1", "}", "}">>,
     <<"{", "{", "a", "0", "}", "}">>,
     <<"{", "{", "a", "5", "}", "}">>,
     <<"{", "{", "z", "z", "1", "}", "}">>,
     <<"{", "{", "a", "b", "c", "1", "}", "}">>}

RECURSIVE PieceTexts(_)
PieceTexts(n) ==
    IF n = 0 THEN {<<>>}
    ELSE {<<>>} \cup {x \o t : <<x, t>> \in Pieces \X PieceTexts(n - 1)}

\* "Revenue: {{a1}} ({{aa1}})"
ExampleRunText ==
    <<"R", "e", "v", "e", "n", "u", "e", ":", " ", "{", "{", "a", "1", "}", "}", " ", "(", "{", "{", "a", "a", "1", "}", "}", ")">>

RunTexts == PieceTexts(MaxPieces) \cup {ExampleRunText}

InitTags ==
    /\ tag_flat \in TagFlats
    /\ run_text \in RunTexts
    /\ run_kind \in {"text_box", "table_cell"}
    /\ tag_result = NotCalled
    /\ IdleBase
    /\ IdleNonTags

\* lines 412-436: a run of a paragraph of a shape's text frame
ReplaceInTextBox ==
    /\ run_kind = "text_box"
    /\ tag_result = NotCalled
    /\ tag_result' = replace_numeric_tags(run_text, tag_flat)
    /\ UNCHANGED <<tag_flat, run_text, run_kind, baseVars, nonTagsVars>>

\* lines 438-464: a run of a paragraph of a cell of a table shape
ReplaceInTableCell ==
    /\ run_kind = "table_cell"
    /\ tag_result = NotCalled
    /\ tag_result' = replace_numeric_tags(run_text, tag_flat)
    /\ UNCHANGED <<tag_flat, run_text, run_kind, baseVars, nonTagsVars>>

NextTags == ReplaceInTextBox \/ ReplaceInTableCell

SpecTags == InitTags /\ [][NextTags]_vars

\* the matches of the run of the harness
RunMatches == findall(run_text, 1)

\* the table a prefix names: its position in custom_order when the flat
\* list is that long, else 0
TableOfPrefix(prefix, flat) ==
    IF \E k \in 1..Len(flat) : custom_order[k] = prefix
    THEN CHOOSE k \in 1..Len(flat) : custom_order[k] = prefix
    ELSE 0

\* a token whose prefix is mapped and whose index n is in 1..rows x columns
Resolvable(m, flat) ==
    /\ TableOfPrefix(m.prefix, flat) # 0
    /\ 1 <= int(m.number)
    /\ int(m.number) <= Len(flat[TableOfPrefix(m.prefix, flat)].rows)
                          * flat[TableOfPrefix(m.prefix, flat)].ncols

\* the formatted value of the cell the token names, counted row by row
TokenValue(m, flat) ==
    LET df == flat[TableOfPrefix(m.prefix, flat)]
        n == int(m.number)
    IN  format_custom_value(m.prefix,
            df.rows[((n - 1) \div df.ncols) + 1][((n - 1) % df.ncols) + 1])

\* C14: for a token whose prefix is mapped and whose index is within the
\* mapped table, the text put in its place is the formatted value of the
\* cell (row, col) = divmod(n - 1, columns), in a text box and in a table
\* cell alike; a run holding just that token between other text becomes that
\* text around the value.
C14_TokenGetsItsCell ==
    (tag_result # NotCalled /\ tag_result.kind = "text") =>
        /\ \A k \in 1..Len(RunMatches) :
              Resolvable(RunMatches[k], tag_flat) =>
                  \E j \in 1..Len(tag_result.replaced) :
                      tag_result.replaced[j] =
                          [token |-> TokenOf(RunMatches[k].prefix, RunMatches[k].number),
                           by |-> TokenValue(RunMatches[k], tag_flat)]
        /\ (Len(RunMatches) = 1 /\ Resolvable(RunMatches[1], tag_flat)) =>
              tag_result.text =
                  SubSeq(run_text, 1, RunMatches[1].start - 1)
                  \o TokenValue(RunMatches[1], tag_flat)
                  \o SubSeq(run_text, RunMatches[1].start + RunMatches[1].length, Len(run_text))

\* a table cell run "Revenue: {{a4}}": row 1, column 1 (from 0) of a
\* two-column table
C14_Witness ==
    /\ run_kind = "table_cell"
    /\ tag_flat = <<T_Main, T_Pct>>
    /\ run_text = <<"R", "e", "v", "e", "n", "u", "e", ":", " ", "{", "{", "a", "4", "}", "}">>
    /\ tag_result # NotCalled
    /\ tag_result.kind = "text"
    /\ tag_result.text = <<"R", "e", "v", "e", "n", "u", "e", ":", " ", "3", ".", "4">>

\* C15: a token whose prefix is not mapped or whose index is outside
\* 1..rows x columns (index 0 and tables without rows or columns included)
\* stays in its run, and the substitution of the run raises no error.
C15_UnresolvedTokenIsLeft ==
    tag_result # NotCalled =>
        /\ tag_result.kind = "text"
        /\ \A k \in 1..Len(RunMatches) :
              ~Resolvable(RunMatches[k], tag_flat) =>
                  \A j \in 1..Len(tag_result.replaced) :
                      tag_result.replaced[j].token #
                          TokenOf(RunMatches[k].prefix, RunMatches[k].number)

\* the run with every token from match k on (text from position pos on)
\* replaced by its own value, at once
RECURSIVE SubstituteAll(_, _, _, _)
SubstituteAll(text, matches, k, flat) ==
    IF k > Len(matches)
    THEN SubSeq(text, IF k = 1 THEN 1 ELSE matches[k - 1].start + matches[k - 1].length, Len(text))
    ELSE SubSeq(text, IF k = 1 THEN 1 ELSE matches[k - 1].start + matches[k - 1].length, matches[k].start - 1)
         \o TokenValue(matches[k], flat)
         \o SubstituteAll(text, matches, k + 1, flat)

\* C16: in a run of several tokens, each resolvable, every token is replaced
\* by its own cell's value in its own prefix's format, the text outside the
\* tokens is unchanged and no replacement alters what another produced.
C16_TokensReplacedIndependently ==
    ( /\ tag_result # NotCalled
      /\ Len(RunMatches) >= 2
      /\ \A k \in 1..Len(RunMatches) : Resolvable(RunMatches[k], tag_flat) )
    => /\ tag_result.kind = "text"
       /\ tag_result.text = SubstituteAll(run_text, RunMatches, 1, tag_flat)

-----------------------------------------------------------------------------
(* The bar shapes of one presentation: _collect_initial_shape_data and      *)
(* _update_percentage_shapes in one run of update_ppt_labels                *)

MaxDepth == 2

BarRequests == {"r1"}

\* the values the cells of the run's tables hold, in thousandths
BarValues ==
    {[numeric |-> TRUE, milli |-> m] :
        m \in {0 - 1200, 0 - 1000, 0 - 500, 0 - 300, 0 - 1, 0, 1, 300, 500, 999, 1000, 1200}}
    \cup {[numeric |-> FALSE, milli |-> 0]}

\* table_data of a workbook with a Commit sheet: ten tables, prefixes a to ee
BarTables(value) ==
    <<[sheet |-> N_Q1Commit, base |-> BaseOf(N_Q1Commit), owner |-> "r1", cell |-> value]>>

BarNames ==
    {<<"b", "a", "r", "_", "a", "a", "1">>,
     <<"b", "a", "r", "_", "a", "a", "3">>,
     <<"b", "a", "r", "_", "a", "a", "9", "9", "9">>}

BarWidths == {1000, 5, 3}

\* a slide with one bar at some depth, one bar of a prefix without a table
\* and one shape that is no bar
BarSlides ==
    {<<LoadedShape(name, width, 100, depth, "autoshape"),
       LoadedShape(<<"b", "a", "r", "_", "F", "G", "1">>, 800, 200, 0, "autoshape"),
       LoadedShape(<<"T", "i", "t", "l", "e", " ", "1">>, 5000, 0, 0, "autoshape")>> :
        <<name, width, depth>> \in BarNames \X BarWidths \X (0..MaxDepth)}

InitBars ==
    /\ files = <<>>
    /\ metadata = [owner |-> "import", entries |-> <<>>]
    /\ \E slide \in BarSlides, value \in BarValues :
          /\ req = [r \in BarRequests |-> [template |-> slide]]
          /\ prs = [r \in BarRequests |->
                      [opened |-> TRUE, shapes |-> slide, text |-> {}]]
          /\ run = [r \in BarRequests |->
                      [FreshRun EXCEPT !.tables_loaded = TRUE,
                                       !.tables = BarTables(value)]]
    /\ pc = [r \in BarRequests |-> "collect"]
    /\ response = [r \in BarRequests |-> NoResponse]
    /\ hist = [r \in BarRequests |-> FreshHist]
    /\ IdleCoord
    /\ IdleFiscal
    /\ IdleSheets
    /\ IdleUnits

NextBars ==
    \E r \in BarRequests :
        \/ Collect(r)
        \/ ReplaceDateTags(r)
        \/ ReplaceTags(r)
        \/ UpdateBars(r)

SpecBars == InitBars /\ [][NextBars]_vars

\* the cell value a bar name resolves to in table_data, or NotCalled: the
\* prefix names the k-th table when custom_order has it at position k and
\* there are that many tables, and the index is within the table
BarValueOf(name, tables) ==
    LET key == BarKey(name)
        nl == RunLen(key, 1, TRUE)
        prefix == SubSeq(key, 1, nl)
        n == int(SubSeq(key, nl + 1, Len(key)))
        ks == {k \in 1..Len(custom_order) : custom_order[k] = prefix /\ k <= TableCount(tables)}
    IN  IF key = <<>> \/ ks = {} THEN NotCalled
        ELSE LET tbl == KthTable(tables, CHOOSE k \in ks : TRUE)
                 cells == df_shape(tbl.region).nrows * df_shape(tbl.region).ncols
             IN  IF 1 <= n /\ n <= cells THEN tbl.cell ELSE NotCalled

\* the bar names a numeric value
HasNumericValue(name, tables) ==
    /\ BarValueOf(name, tables) # NotCalled
    /\ BarValueOf(name, tables).numeric

\* min(1, |v|), in thousandths
Pct(value) == IF abs(value.milli) > 1000 THEN 1000 ELSE abs(value.milli)

\* C17: for every captured bar whose resolved value v is numeric, with
\* pct = min(1, |v|): pct >= 1 gives the original width and left and green;
\* pct = 0 removes the shape; otherwise the width is round(original width x
\* pct), the left is the original one, and the fill is green for v > 0 and
\* red for v < 0.
C17_BarFollowsValue ==
    \A r \in DOMAIN pc :
        pc[r] = "save" =>
            \A i \in 1..Len(req[r].template) :
                HasNumericValue(req[r].template[i].name, run[r].tables) =>
                    LET orig == req[r].template[i]
                        now == prs[r].shapes[i]
                        v == BarValueOf(orig.name, run[r].tables)
                    IN  IF Pct(v) >= 1000
                        THEN /\ now.on_slide
                             /\ now.width = orig.width /\ now.left = orig.left
                             /\ now.fill = "GREEN"
                        ELSE IF Pct(v) = 0
                        THEN ~now.on_slide
                        ELSE /\ now.on_slide
                             /\ now.width = round(orig.width * Pct(v), 1000)
                             /\ now.left = orig.left
                             /\ now.fill = IF v.milli > 0 THEN "GREEN" ELSE "RED"

\* C18: every captured bar whose resolved value is 0, at any depth of group
\* shapes, is off its slide after the update, and every other shape is still
\* on it.
C18_ZeroBarsRemoved ==
    \A r \in DOMAIN pc :
        pc[r] = "save" =>
            \A i \in 1..Len(req[r].template) :
                prs[r].shapes[i].on_slide
                    = ~( /\ HasNumericValue(req[r].template[i].name, run[r].tables)
                         /\ BarValueOf(req[r].template[i].name, run[r].tables).milli = 0 )

-----------------------------------------------------------------------------
(* Two runs of the pipeline, one after the other *)

\* the runs of r and q did not overlap with any run, and both are over
Sequential(r, q) ==
    /\ r # q
    /\ pc[r] = "done" /\ pc[q] = "done"
    /\ hist[r].overlap = {} /\ hist[q].overlap = {}

\* the tables a run used, without the run they are attributed to
TableValues(tables) ==
    [i \in 1..Len(tables) |->
        [sheet |-> tables[i].sheet, base |-> tables[i].base,
         cell |-> tables[i].cell]]

\* the document a run returned: its shapes, and whether its text was filled
\* from the run's own tables
Document(r) ==
    IF response[r].kind # "file" THEN response[r]
    ELSE [kind |-> response[r].content.kind,
          shapes |-> response[r].content.shapes,
          own_text |-> response[r].content.text = {r},
          no_text |-> response[r].content.text = {}]

\* C19: two runs of the pipeline that follow one another, on the same
\* workbook and template on the same day, return the same document, built
\* from the same tables and values: the second run uses neither the bar
\* shapes the first one cached nor a file of the first run's data.
C19_SequentialRunsAgree ==
    \A r, q \in Requests :
        ( /\ Sequential(r, q)
          /\ req[r].workbook = req[q].workbook
          /\ req[r].fault = req[q].fault )
        => /\ Document(r) = Document(q)
           /\ TableValues(run[r].tables) = TableValues(run[q].tables)
           /\ response[r].kind = "file" =>
                 /\ response[r].content.owner = r
                 /\ response[r].content.text \subseteq {r}
                 /\ hist[r].updated \subseteq hist[r].collected

\* both runs, one after the other, returned a presentation whose first bar
\* was resized from the workbook's value
C19_Witness ==
    \E r, q \in Requests :
        /\ Sequential(r, q)
        /\ req[r].workbook = WbAll /\ req[q].workbook = WbAll
        /\ response[r].kind = "file" /\ response[q].kind = "file"
        /\ response[q].content.shapes[1].width = 300
        /\ response[q].content.shapes[1].fill = "GREEN"

-----------------------------------------------------------------------------
(* Extraction of the sheets of one workbook, by preprocess_excel_xml and by *)
(* load_tables_from_excel, when something is wrong with a sheet             *)

\* the regions of a sheet in table_regions
MaxRegions == 2

\* what can be wrong with a sheet of the archive:
\*   name_absent       no <sheet> of that name is found in xl/workbook.xml
\*   rel_absent        no Relationship of the sheet's id
\*   part_absent       the archive has no part at the relationship's target
\*   bad_xml           the sheet's part is not well-formed XML
\*   bad_row_attr      a hidden <row> whose r is no integer
\*   missing_row_attr  a hidden <row> without r
\*   bad_col_attr      a hidden <col> whose min or max is absent or no integer
\*   bad_cell_attr     a boolean cell whose value is no integer
\*   region_unreadable pd.read_excel raises for the regions in bad_regions
ExtractFaults ==
    {"none", "name_absent", "rel_absent", "part_absent", "bad_xml",
     "bad_row_attr", "missing_row_attr", "bad_col_attr", "bad_cell_attr",
     "region_unreadable"}

\* the rows of a sheet that hold cells; the row a row fault is about
SheetRows == {1, 2, 3}

FaultyRow == CHOOSE r \in SheetRows : \A k \in SheetRows : k <= r

ExtractSheet(name, fault, hidden, bad) ==
    [name |-> name, fault |-> fault, hidden |-> hidden, bad_regions |-> bad]

\* the exception _find_sheet_xml_path and _find_sheet_xml_path_for_hidden
\* raise, or "none": lines 15-16 and 22-23, lines 25-26 and 32-33
find_sheet_xml_path(sheet) ==
    IF sheet.fault \in {"name_absent", "rel_absent"} THEN "KeyError" ELSE "none"

\* z.read(xml_path) and ET.fromstring of the sheet's part
read_sheet_xml(sheet) ==
    IF find_sheet_xml_path(sheet) # "none" THEN find_sheet_xml_path(sheet)
    ELSE IF sheet.fault = "part_absent" THEN "KeyError"
    ELSE IF sheet.fault = "bad_xml" THEN "ParseError"
    ELSE "none"

\* the set comprehension over the hidden rows: int(r.attrib["r"])
hidden_rows_outcome(sheet) ==
    IF read_sheet_xml(sheet) # "none" THEN read_sheet_xml(sheet)
    ELSE IF sheet.fault = "bad_row_attr" THEN "ValueError"
    ELSE IF sheet.fault = "missing_row_attr" THEN "KeyError"
    ELSE "none"

\* excel_processor._get_hidden_rows_from_xml: every exception gives set()
get_hidden_rows_from_xml(sheet) ==
    IF hidden_rows_outcome(sheet) # "none" THEN {} ELSE sheet.hidden

\* excel_processor._extract_cell_values_from_xml, as the rows whose cells it
\* returns: a row whose number is absent or no integer is passed over, any
\* exception gives {} (a boolean cell that is no integer raises at line 122)
extract_cell_values_from_xml(sheet) ==
    IF read_sheet_xml(sheet) # "none" THEN {}
    ELSE IF sheet.fault = "bad_cell_attr" THEN {}
    ELSE IF sheet.fault \in {"bad_row_attr", "missing_row_attr"}
         THEN SheetRows \ {FaultyRow}
    ELSE SheetRows

\* the loop of preprocess_excel_xml over required_sheets from i on: the
\* sheets created in the target workbook
RECURSIVE PreprocessLoop(_, _)
PreprocessLoop(sheets, i) ==
    IF i > Len(sheets) THEN <<>>
    ELSE LET hidden_rows == get_hidden_rows_from_xml(sheets[i])
             cell_values_map == extract_cell_values_from_xml(sheets[i])
             max_row == IF cell_values_map = {} THEN 0
                        ELSE CHOOSE m \in cell_values_map :
                                 \A k \in cell_values_map : k <= m
         IN  (IF cell_values_map = {} /\ hidden_rows = {} THEN <<>>
              ELSE <<[name |-> sheets[i].name, rows |-> cell_values_map,
                      hidden |-> {h \in hidden_rows : h <= max_row}]>>)
             \o PreprocessLoop(sheets, i + 1)

\* preprocess_excel_xml: the loop, then tgt_wb.save, whose exception (a
\* workbook without a sheet) is logged at line 209
preprocess_excel_xml(sheets) ==
    [kind |-> "returned", sheets |-> PreprocessLoop(sheets, 1),
     saved |-> PreprocessLoop(sheets, 1) # <<>>]

\* ppt_updater._get_hidden_rows_cols_from_xml: the exception it raises, or
\* "none"
hidden_rows_cols_outcome(sheet) ==
    IF hidden_rows_outcome(sheet) # "none" THEN hidden_rows_outcome(sheet)
    ELSE IF sheet.fault = "bad_col_attr" THEN "ValueError"
    ELSE "none"

\* the regions of a sheet pd.read_excel returns a table for: a cell the
\* reader cannot convert fails every region, for each reads the whole sheet
ReadableRegions(sheet) ==
    IF sheet.fault = "bad_cell_attr" THEN {}
    ELSE (1..MaxRegions) \ sheet.bad_regions

\* the loop of load_tables_from_excel over sheet_names from i on, all_tables
\* being acc: KeyError of the hidden lookup skips the sheet, any other
\* exception of it leaves the function
RECURSIVE LoadLoop(_, _, _)
LoadLoop(sheets, i, acc) ==
    IF i > Len(sheets) THEN [kind |-> "returned", tables |-> acc]
    ELSE LET outcome == hidden_rows_cols_outcome(sheets[i])
         IN  IF outcome = "KeyError" THEN LoadLoop(sheets, i + 1, acc)
             ELSE IF outcome # "none"
             THEN [kind |-> "raised", error |-> outcome, tables |-> acc]
             ELSE LoadLoop(sheets, i + 1,
                      Append(acc, [name |-> sheets[i].name,
                                   dfs |-> ReadableRegions(sheets[i])]))

load_tables_from_excel(sheets) == LoadLoop(sheets, 1, <<>>)

ExtractNames == {N_Q1Commit, N_M1Q1ExecView}

ExtractSheets ==
    {ExtractSheet(n, f, h, {}) :
        <<n, f, h>> \in ExtractNames \X (ExtractFaults \ {"region_unreadable"})
                        \X {{}, {2}}}
    \cup {ExtractSheet(n, "region_unreadable", h, b) :
            <<n, h, b>> \in ExtractNames \X {{}, {2}}
                            \X ((SUBSET (1..MaxRegions)) \ {{}})}

InitExtract ==
    /\ ext_sheets \in {<<a>> : a \in ExtractSheets}
                      \cup {<<a, b>> : <<a, b>> \in
                               {p \in ExtractSheets \X ExtractSheets :
                                   p[1].name # p[2].name}}
    /\ ext_pre = NotCalled
    /\ ext_load = NotCalled
    /\ IdleBase
    /\ IdleNonExtract

CallPreprocess ==
    /\ ext_pre = NotCalled
    /\ ext_pre' = preprocess_excel_xml(ext_sheets)
    /\ UNCHANGED <<ext_sheets, ext_load, baseVars, nonExtractVars>>

CallLoadTables ==
    /\ ext_load = NotCalled
    /\ ext_load' = load_tables_from_excel(ext_sheets)
    /\ UNCHANGED <<ext_sheets, ext_pre, baseVars, nonExtractVars>>

NextExtract == CallPreprocess \/ CallLoadTables

SpecExtract == InitExtract /\ [][NextExtract]_vars

\* what a result (a sequence of records with a name) holds for a sheet
EntriesOf(result, name) ==
    {result[k] : k \in {j \in 1..Len(result) : result[j].name = name}}

\* the step at which a fault strikes: bad_col_attr and region_unreadable are
\* no failure of preprocessing, which reads neither columns nor regions
FailsInPreprocess(sheet) ==
    sheet.fault \notin {"none", "bad_col_attr", "region_unreadable"}

\* C20: a failure while extracting one sheet (name, relationship or part
\* absent, malformed row, column or cell attribute, unreadable region) makes
\* that sheet contribute an empty result, the other sheets are processed as
\* if nothing had happened, and the function returns; in preprocess_excel_xml
\* and in load_tables_from_excel.
C20_SheetFailureDegradesToEmpty ==
    /\ ext_pre # NotCalled =>
          /\ ext_pre.kind = "returned"
          /\ \A i \in 1..Len(ext_sheets) :
                IF FailsInPreprocess(ext_sheets[i])
                THEN \A e \in EntriesOf(ext_pre.sheets, ext_sheets[i].name) :
                        e.rows = {}
                ELSE \E e \in EntriesOf(ext_pre.sheets, ext_sheets[i].name) :
                        e.rows = SheetRows /\ e.hidden = ext_sheets[i].hidden
    /\ ext_load # NotCalled =>
          /\ ext_load.kind = "returned"
          /\ \A i \in 1..Len(ext_sheets) :
                IF ext_sheets[i].fault # "none"
                THEN \A e \in EntriesOf(ext_load.tables, ext_sheets[i].name) :
                        e.dfs = {}
                ELSE \E e \in EntriesOf(ext_load.tables, ext_sheets[i].name) :
                        e.dfs = 1..MaxRegions

-----------------------------------------------------------------------------
(* The value of each cell element: _extract_cell_values_from_xml            *)

\* element.text: None for an element without text or a child that is absent
NoText == [present |-> FALSE, text |-> <<>>]

SomeText(t) == [present |-> TRUE, text |-> t]

\* no entry of cell_values_map for the cell
NoEntry == [kind |-> "absent"]

IntValue(n) == [kind |-> "int", value |-> n]

FloatValue(centi) == [kind |-> "float", centi |-> centi]

BoolValue(b) == [kind |-> "bool", value |-> b]

StrValue(t) == [kind |-> "str", text |-> t]

excel_error_strings ==
    {<<"#", "D", "I", "V", "/", "0", "!">>,
     <<"#", "N", "/", "A">>,
     <<"#", "N", "A", "M", "E", "?">>,
     <<"#", "N", "U", "L", "L", "!">>,
     <<"#", "N", "U", "M", "!">>,
     <<"#", "R", "E", "F", "!">>,
     <<"#", "V", "A", "L", "U", "E", "!">>}

AllDigits(s) == s # <<>> /\ \A i \in 1..Len(s) : IsDigit(s[i])

\* int(text) for the texts of the model: an optional sign, then digits;
\* anything else raises ValueError
int_text(text) ==
    LET neg == text # <<>> /\ text[1] = "-"
        digits == IF neg THEN Tail(text) ELSE text
    IN  IF ~AllDigits(digits) THEN [ok |-> FALSE, value |-> 0]
        ELSE [ok |-> TRUE, value |-> IF neg THEN 0 - int(digits) ELSE int(digits)]

\* float(text) for the texts of the model, in hundredths: an optional sign,
\* digits, and optionally a point and one or two digits; anything else
\* raises ValueError
float_text(text) ==
    LET neg == text # <<>> /\ text[1] = "-"
        body == IF neg THEN Tail(text) ELSE text
        points == {i \in 1..Len(body) : body[i] = "."}
        whole == IF points = {} THEN body
                 ELSE SubSeq(body, 1, (CHOOSE i \in points : TRUE) - 1)
        frac == IF points = {} THEN <<>>
                ELSE SubSeq(body, (CHOOSE i \in points : TRUE) + 1, Len(body))
        centi == 100 * int(whole)
                 + (IF Len(frac) = 1 THEN 10 * int(frac) ELSE int(frac))
    IN  IF /\ Cardinality(points) <= 1
           /\ AllDigits(whole)
           /\ (points = {} \/ (AllDigits(frac) /\ Len(frac) <= 2))
        THEN [ok |-> TRUE, centi |-> IF neg THEN 0 - centi ELSE centi]
        ELSE [ok |-> FALSE, centi |-> 0]

\* lines 105-137 for one <c> element: the value (NoEntry for None), or the
\* exception that leaves the loop.  t is the attribute ("absent": the
\* default "n"), v the text of the <v> child, inline the text of <is><t>.
cell_value(cell, strings) ==
    LET cell_type == IF cell.t = "absent" THEN "n" ELSE cell.t
    IN  IF cell.v = NoText THEN NoEntry
        ELSE IF cell.v.text \in excel_error_strings THEN IntValue(0)
        ELSE IF cell_type = "s"
             THEN (IF ~int_text(cell.v.text).ok THEN NoEntry
                   ELSE IF 0 <= int_text(cell.v.text).value
                           /\ int_text(cell.v.text).value < Len(strings)
                   THEN StrValue(strings[int_text(cell.v.text).value + 1])
                   ELSE NoEntry)
        ELSE IF cell_type = "b"
             THEN (IF ~int_text(cell.v.text).ok THEN [kind |-> "raised"]
                   ELSE BoolValue(int_text(cell.v.text).value # 0))
        ELSE IF cell_type = "n"
             THEN (IF float_text(cell.v.text).ok
                   THEN FloatValue(float_text(cell.v.text).centi)
                   ELSE StrValue(cell.v.text))
        ELSE IF cell_type = "str" THEN StrValue(cell.v.text)
        ELSE IF cell_type = "inlineStr"
             THEN (IF cell.inline = NoText THEN NoEntry
                   ELSE StrValue(cell.inline.text))
        ELSE StrValue(cell.v.text)

\* _extract_cell_values_from_xml over the cells of a sheet: the entry of
\* each cell; an exception in any cell is caught at line 146 and the
\* function returns {}
extract_cell_values(cells, strings) ==
    IF \E i \in 1..Len(cells) : cell_value(cells[i], strings).kind = "raised"
    THEN [i \in 1..Len(cells) |-> NoEntry]
    ELSE [i \in 1..Len(cells) |-> cell_value(cells[i], strings)]

CellTypes == {"absent", "n", "s", "b", "str", "inlineStr", "e", "d"}

CellTexts ==
    {NoText} \cup {SomeText(t) : t \in
        {<<"0">>,
         <<"1">>,
         <<"5">>,
         <<"2", ".", "5">>,
         <<"-", "1">>,
         <<"a", "b", "c">>,
         <<"#", "D", "I", "V", "/", "0", "!">>,
         <<"#", "N", "/", "A">>}}

InlineTexts == {NoText, SomeText(<<"h", "i">>)}

XmlCells == [t : CellTypes, v : CellTexts, inline : InlineTexts]

\* cells that stand before another one in a sheet of two
FirstCells ==
    {[t |-> "n", v |-> SomeText(<<"5">>), inline |-> NoText],
     [t |-> "s", v |-> SomeText(<<"0">>), inline |-> NoText]}

StringTables == {<<>>, <<<<"a", "b">>>>, <<<<"a", "b">>, <<"c", "d">>>>}

InitCells ==
    /\ xml_cells \in {<<c>> : c \in XmlCells}
                     \cup {<<a, c>> : <<a, c>> \in FirstCells \X XmlCells}
    /\ shared_strings \in StringTables
    /\ cell_values = NotCalled
    /\ IdleBase
    /\ IdleNonCells

CallExtractCellValues ==
    /\ cell_values = NotCalled
    /\ cell_values' = [kind |-> "returned",
                       entries |-> extract_cell_values(xml_cells, shared_strings)]
    /\ UNCHANGED <<xml_cells, shared_strings, baseVars, nonCellsVars>>

NextCells == CallExtractCellValues

SpecCells == InitCells /\ [][NextCells]_vars

\* what the cell should yield: NotCalled where nothing is said
ExpectedCellValue(cell, strings) ==
    LET cell_type == IF cell.t = "absent" THEN "n" ELSE cell.t
    IN  IF cell_type = "inlineStr"
        THEN (IF cell.v # NoText THEN NotCalled
              ELSE IF cell.inline # NoText THEN StrValue(cell.inline.text)
              ELSE NoEntry)
        ELSE IF cell.v = NoText THEN NoEntry
        ELSE IF cell.v.text \in excel_error_strings THEN IntValue(0)
        ELSE IF cell_type = "s"
             THEN (IF ~int_text(cell.v.text).ok THEN NotCalled
                   ELSE IF int_text(cell.v.text).value \in 0..(Len(strings) - 1)
                   THEN StrValue(strings[int_text(cell.v.text).value + 1])
                   ELSE NoEntry)
        ELSE IF cell_type = "b"
             THEN (IF cell.v.text \in {<<"0">>, <<"1">>}
                   THEN BoolValue(cell.v.text = <<"1">>) ELSE NotCalled)
        ELSE IF cell_type = "n"
             THEN (IF float_text(cell.v.text).ok
                   THEN FloatValue(float_text(cell.v.text).centi)
                   ELSE StrValue(cell.v.text))
        ELSE NotCalled

\* C21: every cell element yields the referenced shared string (no entry
\* for an index out of range), 0 or 1 for a boolean, the parsed number or
\* the raw text for a numeric cell, the inline text for an inline-string
\* cell, the number 0 for an error sentinel, and no entry without a value.
C21_CellValueByType ==
    cell_values # NotCalled =>
        \A i \in 1..Len(xml_cells) :
            \/ ExpectedCellValue(xml_cells[i], shared_strings) = NotCalled
            \/ cell_values.entries[i]
                  = ExpectedCellValue(xml_cells[i], shared_strings)

-----------------------------------------------------------------------------
(* Which shapes _collect_initial_shape_data records                         *)

ShapeKinds == {"autoshape", "table", "group"}

CollectNames ==
    {<<"b", "a", "r", "_", "a", "1">>,
     <<"b", "a", "r", "_", "a", "a", "1">>,
     <<"b", "a", "r", "_", "a", "b", "c", "1">>,
     <<"b", "a", "r", "_", "a">>,
     <<"T", "i", "t", "l", "e", " ", "1">>}

CollectShapes ==
    {LoadedShape(name, 1000, 100, depth, kind) :
        <<name, depth, kind>> \in CollectNames \X (0..MaxDepth) \X ShapeKinds}

\* a slide of two shapes; every table holds 0.3 in every cell
InitCollect ==
    /\ files = <<>>
    /\ metadata = [owner |-> "import", entries |-> <<>>]
    /\ \E a \in CollectShapes, b \in CollectShapes :
          /\ req = [r \in BarRequests |-> [template |-> <<a, b>>]]
          /\ prs = [r \in BarRequests |->
                      [opened |-> TRUE, shapes |-> <<a, b>>, text |-> {}]]
    /\ run = [r \in BarRequests |->
                [FreshRun EXCEPT !.tables_loaded = TRUE,
                                 !.tables = BarTables([numeric |-> TRUE,
                                                       milli |-> 300])]]
    /\ pc = [r \in BarRequests |-> "collect"]
    /\ response = [r \in BarRequests |-> NoResponse]
    /\ hist = [r \in BarRequests |-> FreshHist]
    /\ IdleCoord
    /\ IdleFiscal
    /\ IdleSheets
    /\ IdleUnits

SpecCollect == InitCollect /\ [][NextBars]_vars

\* C22: the shapes recorded are exactly the shapes, at any depth, whose name
\* matches bar_<1-2 letters><digits> and that are neither a table nor a
\* group shape; a group shape of such a name is not recorded and the bar
\* update leaves it as it was.
C22_RecordedAreBarAutoshapes ==
    \A r \in DOMAIN pc :
        /\ pc[r] # "collect" =>
              hist[r].collected
                 = {<<r, i>> : i \in {k \in 1..Len(req[r].template) :
                       /\ BarKey(req[r].template[k].name) # <<>>
                       /\ req[r].template[k].kind \notin {"table", "group"}}}
        /\ \A i \in 1..Len(req[r].template) :
              req[r].template[i].kind = "group" =>
                 prs[r].shapes[i] = req[r].template[i]

-----------------------------------------------------------------------------
(* The order of the steps of update_ppt_labels *)

StepOrder == <<"capture", "date_tags", "numeric_tags", "bars", "save">>

IsPrefix(a, b) == Len(a) <= Len(b) /\ a = SubSeq(b, 1, Len(a))

\* the widths a bar of that name and template width can be given: the
\* template's, or round(template width x pct) for the value a run's tables
\* hold for it
BarWidthsFrom(shape) ==
    {shape.width}
    \cup {round(shape.width * Pct(BarValueOf(shape.name, run[q].tables)), 1000) :
            q \in {p \in DOMAIN run : HasNumericValue(shape.name, run[p].tables)}}

\* C23: the steps of update_ppt_labels occur in the order capture, date
\* tags, numeric tags, bar update, save; a shape differs from the template
\* only after the baselines of its presentation were captured, and the
\* width and left the bar update works from are the template's.
C23_StepsInOrder ==
    /\ \A r \in Requests :
          /\ IsPrefix(hist[r].steps, StepOrder)
          /\ \A i \in 1..Len(prs[r].shapes) :
                /\ prs[r].shapes[i] # TemplateSlide[i] =>
                      /\ hist[r].steps # <<>>
                      /\ <<r, i>> \in hist[r].collected
                /\ prs[r].shapes[i].left = TemplateSlide[i].left
                /\ prs[r].shapes[i].width # TemplateSlide[i].width =>
                      prs[r].shapes[i].width \in BarWidthsFrom(TemplateSlide[i])
    /\ \A k \in 1..Len(metadata.entries) :
          LET o == metadata.entries[k].shape_obj
          IN  /\ metadata.entries[k].original_width = TemplateSlide[o[2]].width
              /\ metadata.entries[k].original_left = TemplateSlide[o[2]].left

\* a run went through all five steps and its first bar was resized
C23_Witness ==
    \E r \in Requests :
        /\ hist[r].steps = StepOrder
        /\ <<r, 1>> \in hist[r].updated
        /\ prs[r].shapes[1].width = 300
        /\ prs[r].shapes[1].width # TemplateSlide[1].width

-----------------------------------------------------------------------------
(* Cells that hold a formula string, in a table of load_tables_from_excel   *)

FormulaSheets ==
    [max_row : {MaxRow - 1}, max_col : {MaxCol},
     hidden_rows : {{}, {1}, {2}, {2, 3}, {MaxRow}},
     hidden_col_ranges : {{}, {<<1, 1>>}, {<<2, 2>>}},
     formulas : {{}, {<<2, 2>>}, {<<1, 1>>, <<3, 3>>}, {<<3, 1>>, <<3, 2>>}},
     blank : {{}, {<<2, 3>>}, {<<1, 2>>, <<3, 3>>}}]

InitFormula ==
    /\ src_sheet \in {sh \in FormulaSheets : sh.formulas \cap sh.blank = {}}
    /\ table_region \in Regions
    /\ direct_df = NotCalled
    /\ target_sheet = NotCalled
    /\ pipeline_df = NotCalled
    /\ IdleBase
    /\ IdleNonRegion

SpecFormula == InitFormula /\ [][LoadDirect]_vars

\* the source cell of the table's cell (i, j): the i-th row and the j-th
\* column of the region that are not hidden
SourceCellOf(sheet, reg, i, j) ==
    <<VisibleRows(sheet, reg)[i], VisibleCols(sheet, reg)[j]>>

\* C24: in every table, a cell whose first-read value is a string beginning
\* with "=" holds the value the second read has for the same source cell,
\* also after hidden rows and columns were dropped; every other cell keeps
\* its first-read value; a missing value is the empty string.
C24_FormulaCellsTakeCachedValue ==
    (direct_df # NotCalled /\ direct_df.kind = "table") =>
        \A i \in 1..Len(direct_df.rows) :
            \A j \in 1..Len(direct_df.rows[i]) :
                LET at == SourceCellOf(src_sheet, table_region, i, j)
                    first == cell_value_of(src_sheet, at[1], at[2])
                    second == cell_value_of(src_sheet, at[1], at[2])
                IN  direct_df.rows[i][j]
                       = IF first = Missing THEN EmptyCell
                         ELSE IF ~StartsWithEquals(first) THEN first
                         ELSE IF second = Missing THEN EmptyCell
                         ELSE second

\* a table with a cell that held a formula string, below a dropped row and
\* right of a dropped column
C24_Witness ==
    /\ direct_df # NotCalled
    /\ direct_df.kind = "table"
    /\ \E i \in 1..Len(direct_df.rows) :
          \E j \in 1..Len(direct_df.rows[i]) :
              /\ StartsWithEquals(direct_df.rows[i][j])
              /\ direct_df.rows[i][j][1]
                    > coordinate_to_tuple(table_region[1]).row + i - 1
              /\ direct_df.rows[i][j][2]
                    > coordinate_to_tuple(table_region[1]).col + j - 1

-----------------------------------------------------------------------------
(* Bars that the update passes over *)

\* names of bars: a prefix without a table, an index beyond the table, the
\* index 0, and a cell of the table
SkipNames ==
    {<<"b", "a", "r", "_", "F", "G", "1">>,
     <<"b", "a", "r", "_", "a", "a", "9", "9", "9">>,
     <<"b", "a", "r", "_", "a", "a", "0">>,
     <<"b", "a", "r", "_", "a", "a", "3">>}

\* a slide whose first bar is one of these and whose second bar names a cell
SkipSlides ==
    {<<LoadedShape(name, width, 100, depth, "autoshape"),
       LoadedShape(<<"b", "a", "r", "_", "a", "1">>, 800, 200, 0, "autoshape"),
       LoadedShape(<<"T", "i", "t", "l", "e", " ", "1">>, 5000, 0, 0, "autoshape")>> :
        <<name, width, depth>> \in SkipNames \X BarWidths \X (0..MaxDepth)}

InitSkip ==
    /\ files = <<>>
    /\ metadata = [owner |-> "import", entries |-> <<>>]
    /\ \E slide \in SkipSlides, value \in BarValues :
          /\ req = [r \in BarRequests |-> [template |-> slide]]
          /\ prs = [r \in BarRequests |->
                      [opened |-> TRUE, shapes |-> slide, text |-> {}]]
          /\ run = [r \in BarRequests |->
                      [FreshRun EXCEPT !.tables_loaded = TRUE,
                                       !.tables = BarTables(value)]]
    /\ pc = [r \in BarRequests |-> "collect"]
    /\ response = [r \in BarRequests |-> NoResponse]
    /\ hist = [r \in BarRequests |-> FreshHist]
    /\ IdleCoord
    /\ IdleFiscal
    /\ IdleSheets
    /\ IdleUnits

SpecSkip == InitSkip /\ [][NextBars]_vars

\* C25: a captured bar whose prefix is unmapped, whose index is outside the
\* mapped table or whose value is not numeric is, after the bar update, on
\* its slide as the template had it (width, left, fill), and the bars that
\* name a numeric cell are updated all the same.
C25_SkippedBarsUntouched ==
    \A r \in DOMAIN pc :
        pc[r] = "save" =>
            \A i \in 1..Len(req[r].template) :
                BarKey(req[r].template[i].name) # <<>> =>
                    IF HasNumericValue(req[r].template[i].name, run[r].tables)
                    THEN prs[r].shapes[i] # req[r].template[i]
                    ELSE prs[r].shapes[i] = req[r].template[i]

-----------------------------------------------------------------------------
(* Harness of region assignment: the sheets of a preprocessed workbook are *)
(* identified and ordered, each ordered sheet is given a region list, the  *)
(* tables are loaded and update_ppt_labels flattens them                   *)

MaxAssignSheets == 4

AssignUniverse ==
    {N_MarginsScenarios, N_M1Q1ExecView, N_Q1M1Comparisons, N_Q1Commit,
     N_Q1M1ExecViewComparisons}

NoAssignFault == [skip |-> {}, fail |-> {}]

\* nothing wrong, one sheet missing from the file when the tables are loaded
\* (KeyError), or the first region of one sheet unreadable
AssignFaults ==
    {NoAssignFault}
    \cup {[skip |-> {n}, fail |-> {}] : n \in AssignUniverse}
    \cup {[skip |-> {}, fail |-> {[sheet |-> n, index |-> 1]}] : n \in AssignUniverse}

\* app.upload_file lines 160-164: table_regions, in the insertion order of
\* the dict, each sheet with the position of its list in base_regions
table_regions(ordered) ==
    LET keys == TableKeys(SelectSeq(ordered, LAMBDA n : BaseOf(n) # 0), {})
    IN  [i \in 1..Len(keys) |-> [sheet |-> keys[i], base |-> BaseOf(keys[i])]]

\* load_tables_from_excel lines 91-143 on table_regions from entry i on: a
\* sheet whose lookup raises KeyError is skipped, a region whose read raises
\* adds no table, every other region adds one.  A table is named by the
\* position of its region in the sheet's list.
RECURSIVE load_assigned_tables(_, _, _)
load_assigned_tables(regions, faults, i) ==
    IF i > Len(regions) THEN <<>>
    ELSE IF regions[i].sheet \in faults.skip
    THEN load_assigned_tables(regions, faults, i + 1)
    ELSE <<[sheet |-> regions[i].sheet, base |-> regions[i].base,
            dfs |-> SelectSeq([k \in 1..Len(base_regions[regions[i].base]) |-> k],
                        LAMBDA k : [sheet |-> regions[i].sheet, index |-> k]
                                       \notin faults.fail)]>>
         \o load_assigned_tables(regions, faults, i + 1)

\* update_ppt_labels lines 392-400 without the test of line 395: the tables
\* of every sheet in order
RECURSIVE assigned_tables_in_order(_)
assigned_tables_in_order(td) ==
    IF td = <<>> THEN <<>>
    ELSE IF Head(td).dfs = <<>> THEN assigned_tables_in_order(Tail(td))
    ELSE [j \in 1..Len(Head(td).dfs) |->
             [sheet |-> Head(td).sheet, base |-> Head(td).base,
              index |-> Head(td).dfs[j]]]
         \o assigned_tables_in_order(Tail(td))

\* all_tbls_flat after the loop: line 395 admits a table while there is a
\* prefix left
assigned_all_tbls_flat(td) ==
    LET tables == assigned_tables_in_order(td)
    IN  IF Len(tables) <= Len(custom_order) THEN tables
        ELSE SubSeq(tables, 1, Len(custom_order))

InitAssign ==
    /\ asg_names \in DistinctSeqs(AssignUniverse, MaxAssignSheets)
    /\ asg_faults \in AssignFaults
    /\ asg_regions = NotCalled
    /\ asg_flat = NotCalled
    /\ IdleBase
    /\ IdleNonAssign

\* app.upload_file lines 107-164
AssignRegions ==
    /\ asg_regions = NotCalled
    /\ LET identified == find_dynamic_sheets(asg_names, TodayLabels.quarter,
                             TodayLabels.month_overall, TodayLabels.month_in_quarter)
           ordered == OrderSheets(identified)
       IN  asg_regions' = [identified |-> identified, ordered |-> ordered,
                           table_regions |-> table_regions(ordered)]
    /\ UNCHANGED <<asg_names, asg_faults, asg_flat, baseVars, nonAssignVars>>

\* app.upload_file lines 167 and 172: load_tables_from_excel, then the
\* flattening at the head of update_ppt_labels
LoadAndFlatten ==
    /\ asg_regions # NotCalled
    /\ asg_flat = NotCalled
    /\ LET td == load_assigned_tables(asg_regions.table_regions, asg_faults, 1)
       IN  asg_flat' = [table_data |-> td,
                        all_tbls_flat |-> assigned_all_tbls_flat(td)]
    /\ UNCHANGED <<asg_names, asg_faults, asg_regions, baseVars, nonAssignVars>>

NextAssign == AssignRegions \/ LoadAndFlatten

SpecAssign == InitAssign /\ [][NextAssign]_vars

\* the base name of the role of each pattern of required_patterns
RoleKeys == <<S_MarginsScenarios, S_ExecView, S_Comparisons, S_Commit>>

AssignPatterns ==
    required_patterns(TodayLabels.quarter, TodayLabels.month_in_quarter)

\* the pattern a sheet name matches, as a position of required_patterns, 0
\* for none: the four patterns exclude one another
RoleOf(sheet_name) ==
    LET hits == {k \in 1..Len(AssignPatterns) : re_match(AssignPatterns[k], sheet_name)}
    IN  IF hits = {} THEN 0 ELSE CHOOSE k \in hits : TRUE

\* the region list configured for the role of pattern k
RegionsOfRole(k) ==
    base_regions[CHOOSE b \in 1..Len(base_region_keys) : base_region_keys[b] = RoleKeys[k]]

\* C27: every sheet of the ordered sheet list is a key of table_regions and
\* is assigned the region list of the role whose pattern it matched in
\* find_dynamic_sheets.
C27_SheetGetsRegionsOfItsRole ==
    asg_regions # NotCalled =>
        /\ \A i \in 1..Len(asg_regions.ordered) :
              \E j \in 1..Len(asg_regions.table_regions) :
                  asg_regions.table_regions[j].sheet = asg_regions.ordered[i]
        /\ \A j \in 1..Len(asg_regions.table_regions) :
              LET entry == asg_regions.table_regions[j]
              IN  /\ RoleOf(entry.sheet) # 0
                  /\ base_regions[entry.base] = RegionsOfRole(RoleOf(entry.sheet))

\* the number of regions configured from base b on
RECURSIVE ConfiguredRegions(_)
ConfiguredRegions(b) ==
    IF b > Len(base_regions) THEN 0
    ELSE Len(base_regions[b]) + ConfiguredRegions(b + 1)

\* each of the four patterns has a match among the sheet names
AllRolesResolve ==
    \A k \in 1..Len(AssignPatterns) : FirstMatch(AssignPatterns[k], asg_names) # <<>>

\* C26: the regions configured over the four roles are as many as the
\* prefixes of custom_order, no prefix is repeated, and so, when all four
\* roles resolve and every region is read, every table is in all_tbls_flat
\* under one prefix of its own and no table is dropped.
C26_EveryTableGetsAPrefix ==
    /\ ConfiguredRegions(1) = Len(custom_order)
    /\ \A x, y \in 1..Len(custom_order) : custom_order[x] = custom_order[y] => x = y
    /\ (/\ asg_flat # NotCalled
        /\ AllRolesResolve
        /\ asg_faults = NoAssignFault) =>
           LET tables == assigned_tables_in_order(asg_flat.table_data)
               flat == asg_flat.all_tbls_flat
           IN  /\ Len(flat) = Len(tables)
               /\ \A k \in 1..Len(tables) :
                     /\ lmap_get(custom_order[k], flat) = k - 1
                     /\ flat[k] = tables[k]

\* the (role, region) pairs of a run where all four roles resolve and every
\* region is read, in the order of the prefixes: the roles in the order of
\* desired_order_bases, each with its own regions in order
RECURSIVE FullRunPairs(_)
FullRunPairs(b) ==
    IF b > Len(desired_order_bases) THEN <<>>
    ELSE [k \in 1..Len(base_regions[b]) |->
             [role |-> desired_order_bases[b], region |-> base_regions[b][k]]]
         \o FullRunPairs(b + 1)

\* the (role, region) pair of a table of all_tbls_flat: the role of the sheet
\* it was read from and the cell range it was read at
PairOf(table) ==
    [role |-> IF RoleOf(table.sheet) = 0 THEN <<>> ELSE RoleKeys[RoleOf(table.sheet)],
     region |-> base_regions[table.base][table.index]]

\* C28: in every run a mapped prefix addresses the table of the (role,
\* region) pair it addresses in a run where all four roles resolve and every
\* region is read, also when a role is unresolved, a sheet is skipped or a
\* region's read fails.
C28_PrefixAddressesSamePair ==
    asg_flat # NotCalled =>
        \A k \in 1..Len(asg_flat.all_tbls_flat) :
            LET index == lmap_get(custom_order[k], asg_flat.all_tbls_flat)
            IN  PairOf(asg_flat.all_tbls_flat[index + 1]) = FullRunPairs(1)[k]

====
